---------------------------- MODULE Spec2Model ----------------------------
(***************************************************************************)
(* A model of the multi-criteria evaluation engine: the lower-bound level  *)
(* membership function, the TOPSIS and VIKOR aggregators, the grade        *)
(* assessment, polarity adjustment and the resource cache of the tools.    *)
(* Every function of the core is pure; each is modelled as                 *)
(* an operator translated from its source, and each specification draws    *)
(* the arguments of a call from bounded sets and applies the function.     *)
(*                                                                         *)
(* Numbers are exact rationals <<n, d>> in lowest terms with d > 0.        *)
(***************************************************************************)
EXTENDS Integers, Sequences, FiniteSets

VARIABLES
    pc,                        \* position of the modelled call
    x,                         \* membership: the input value(s)
    level_params,              \* membership: the thresholds a_1 .. a_h
    level_index,               \* membership: the level asked for
    total_levels,              \* membership: the declared number of levels
    membership,                \* membership: what the call returned
    normalized_matrices,       \* aggregation: the objects' factor x level matrices
    weights,                   \* aggregation: the weights argument (or None)
    v,                         \* VIKOR: the strategy weight
    v_given,                   \* VIKOR: whether the caller passed v
    q_values,                  \* VIKOR tool: the (object, Q) pairs of the ranking table
    grade_levels,              \* grade: num_levels, the declared number of grades h
    level_characteristic_values,  \* grade: the characteristic value of every object
    binary_semantic_results,   \* grade: (k, alpha) of every object
    assessment_result,         \* grade: what assess_comprehensive_grade returned
    comprehensive_membership,  \* TOPSIS: D+ and D- of every object
    comprehensive_scores,      \* TOPSIS: relative closeness V of every object
    membership_scores,         \* TOPSIS: comprehensive membership U of every object
    vikor_scores,              \* VIKOR: S, R and Q of every object
    df,                        \* polarity: the table handed to the call
    polarity_results,          \* polarity: the detection results handed to the function
    adjusted_df,               \* polarity: what apply_polarity_adjustment returned
    DATA_CACHE,                \* tools: resource URI -> cached table
    RESOURCE_INDEX,            \* tools: resource id -> the URI of its index entry
    upload_result,             \* tools: what upload_csv returned
    original_resource_uri,     \* tools: the URI handed to apply_polarity_adjustment_tool
    polarity_config,           \* tools: the polarity configuration handed to it
    tool_result,               \* tools: what apply_polarity_adjustment_tool returned
    membership_config,         \* tools: the config handed to calculate_membership_with_config
    membership_result,         \* tools: what calculate_membership_with_config returned
    latest_resource,           \* tools: what find_latest_membership_resource returned
    evaluation_resource_id,    \* tools: the resource_id handed to an evaluation tool
    cache_result,              \* tools: the cache_result flag handed to it
    evaluation_result,         \* tools: what the evaluation tool returned
    uuid_counter,              \* tools: the number of uuids drawn so far
    calls                      \* tools: the number of tool calls made after the upload

membershipVars == <<x, level_params, level_index, total_levels, membership>>
aggregationVars == <<normalized_matrices, weights, v, v_given, comprehensive_membership,
                     comprehensive_scores, membership_scores, vikor_scores, q_values>>
gradeVars == <<grade_levels, level_characteristic_values, binary_semantic_results,
               assessment_result>>
tableVars == <<df, polarity_results, adjusted_df, DATA_CACHE, RESOURCE_INDEX, upload_result,
               original_resource_uri, polarity_config, tool_result>>
workflowVars == <<membership_config, membership_result, latest_resource,
                  evaluation_resource_id, cache_result, evaluation_result, uuid_counter,
                  calls>>
vars == <<pc, membershipVars, aggregationVars, gradeVars, tableVars, workflowVars>>

(***************************************************************************)
(* Bounds of the model.                                                    *)
(***************************************************************************)
MaxThreshold == 2     \* thresholds are integers in -MaxThreshold .. MaxThreshold
MaxLevels == 3        \* threshold lists have 1 .. MaxLevels entries
MaxArrayLen == 1      \* array inputs have 1 .. MaxArrayLen elements
MaxWeight == 2        \* explicit weights are integers in 0 .. MaxWeight, or 1/num_factors
MaxAggLevels == 2

(***************************************************************************)
(* Exact rational arithmetic.                                              *)
(***************************************************************************)
Abs(i) == IF i < 0 THEN -i ELSE i

RECURSIVE GCD(_, _)
GCD(a, b) == IF b = 0 THEN a ELSE GCD(b, a % b)

\* The rational n/d (d # 0) in lowest terms with a positive denominator.
Rat(n, d) ==
    LET g == GCD(Abs(n), Abs(d))
        s == IF d < 0 THEN -1 ELSE 1
    IN  <<(s * n) \div g, (s * d) \div g>>

Whole(i) == <<i, 1>>
Zero == Whole(0)
One == Whole(1)

RAdd(a, b) == Rat(a[1] * b[2] + b[1] * a[2], a[2] * b[2])
RSub(a, b) == Rat(a[1] * b[2] - b[1] * a[2], a[2] * b[2])
RMul(a, b) == Rat(a[1] * b[1], a[2] * b[2])
RDiv(a, b) == Rat(a[1] * b[2], a[2] * b[1])        \* b # 0
\* What a Python true division by zero leaves instead of a number: the marker
\* of a raised ZeroDivisionError.
DivisionByZero == <<0, 0>>
TrueDiv(a, b) == IF b[1] = 0 THEN DivisionByZero ELSE RDiv(a, b)
RLt(a, b) == a[1] * b[2] < b[1] * a[2]
RLe(a, b) == a[1] * b[2] <= b[1] * a[2]
RGe(a, b) == RLe(b, a)
RGt(a, b) == RLt(b, a)

\* The cast of a float to an integer dtype: truncation toward zero.
Trunc(a) == IF a[1] >= 0 THEN Whole(a[1] \div a[2]) ELSE Whole(-((-a[1]) \div a[2]))

(***************************************************************************)
(* What a call returns: a value, or the exception it raised.               *)
(***************************************************************************)
Ok(val) == [status |-> "ok", vals |-> val]
Raise(exc) == [status |-> exc, vals |-> <<>>]
NotCalled == [status |-> "none", vals |-> <<>>]

\* No grade assessment has been made.
GradeIdle ==
    /\ grade_levels = 0
    /\ level_characteristic_values = NotCalled
    /\ binary_semantic_results = NotCalled
    /\ assessment_result = NotCalled

\* No table has been uploaded or adjusted.
TableIdle ==
    /\ df = <<>>
    /\ polarity_results = <<>>
    /\ adjusted_df = NotCalled
    /\ DATA_CACHE = <<>>
    /\ RESOURCE_INDEX = <<>>
    /\ upload_result = NotCalled
    /\ original_resource_uri = [scheme |-> "", id |-> ""]
    /\ polarity_config = <<>>
    /\ tool_result = NotCalled

\* No tool has been called after the upload and its polarity adjustment, which
\* draw the uuids 1 to 3.
WorkflowIdle ==
    /\ membership_config = <<>>
    /\ membership_result = NotCalled
    /\ latest_resource = NotCalled
    /\ evaluation_resource_id = NotCalled
    /\ cache_result = TRUE
    /\ evaluation_result = NotCalled
    /\ uuid_counter = 3
    /\ calls = 0


(***************************************************************************)
(* LowerBoundMembershipFunctions.lower_bound_level_membership              *)
(*                                                                         *)
(* The input x is [kind, dtype, vals]: kind "scalar" is a Python int or    *)
(* float (isinstance(x, (int, float)) holds) and vals is <<x>>; kind       *)
(* "array" is a numpy array of dtype "int" or "float" with elements vals.  *)
(***************************************************************************)

\* (x - a_next) / (a_current - a_next), a Python true division.
interpolate(xv, a_current, a_next) ==
    TrueDiv(RSub(xv, a_next), RSub(a_current, a_next))

\* a_prev / x, without the test of x.
hyperbolic_unguarded(xv, a_prev) == TrueDiv(a_prev, xv)

\* a_prev / x if x > 0 else 0.0
hyperbolic(xv, a_prev) ==
    IF RGt(xv, Zero) THEN TrueDiv(a_prev, xv) ELSE Zero

\* The rule below the last threshold:
\* 1.0 if x <= 0.0, else x / a_current if a_current > 0 else 0.0
below_last(xv, a_current) ==
    IF RLe(xv, Zero) THEN One
    ELSE IF RGt(a_current, Zero) THEN TrueDiv(xv, a_current) ELSE Zero

\* Level 1, scalar path (formula 4-11).
level_first_scalar(xv, a_current, a_next) ==
    IF RGe(xv, a_current) THEN One
    ELSE IF RLe(a_next, xv) /\ RLt(xv, a_current)
         THEN interpolate(xv, a_current, a_next)
         ELSE Zero

\* level_last_scalar without the correction for x <= 0 below the last
\* threshold.
level_last_scalar_uncorrected(xv, a_prev, a_current) ==
    IF RGe(xv, a_prev) THEN hyperbolic(xv, a_prev)
    ELSE IF RLe(a_current, xv) /\ RLt(xv, a_prev) THEN One
    ELSE IF RGt(a_current, Zero) THEN RDiv(xv, a_current) ELSE Zero

\* Last level, scalar path (formula 4-13).
level_last_scalar(xv, a_prev, a_current) ==
    IF RGe(xv, a_prev) THEN hyperbolic(xv, a_prev)
    ELSE IF RLe(a_current, xv) /\ RLt(xv, a_prev) THEN One
    ELSE below_last(xv, a_current)

\* Middle level, scalar path (formula 4-12).
level_middle_scalar(xv, a_prev, a_current, a_next) ==
    IF RGe(xv, a_prev) THEN hyperbolic(xv, a_prev)
    ELSE IF RLe(a_current, xv) /\ RLt(xv, a_prev) THEN One
    ELSE IF RLe(a_next, xv) /\ RLt(xv, a_current)
         THEN interpolate(xv, a_current, a_next)
         ELSE Zero

\* Storing a float into result = np.zeros_like(x): an integer array keeps
\* its dtype, so the stored value is cast (truncated).
store(dtype, val) == IF dtype = "int" THEN Trunc(val) ELSE val

\* Level 1, array path: result[mask1] = 1.0, then result[mask2] = ...
level_first_array(xs, dtype, a_current, a_next) ==
    [j \in 1..Len(xs) |->
        LET mask1 == RGe(xs[j], a_current)
            mask2 == RGe(xs[j], a_next) /\ RLt(xs[j], a_current)
        IN  IF mask2 THEN store(dtype, interpolate(xs[j], a_current, a_next))
            ELSE IF mask1 THEN store(dtype, One)
            ELSE Zero]

\* Last level, array path: the three masked assignments in source order,
\* a later one overwriting an earlier one.
level_last_array(xs, dtype, a_prev, a_current) ==
    [j \in 1..Len(xs) |->
        LET mask1 == RGe(xs[j], a_prev)
            mask2 == RGe(xs[j], a_current) /\ RLt(xs[j], a_prev)
            mask3 == RLt(xs[j], a_current)
        IN  IF mask3 THEN store(dtype, below_last(xs[j], a_current))
            ELSE IF mask2 THEN store(dtype, One)
            ELSE IF mask1 THEN store(dtype, hyperbolic(xs[j], a_prev))
            ELSE Zero]

\* Middle level, array path.
level_middle_array(xs, dtype, a_prev, a_current, a_next) ==
    [j \in 1..Len(xs) |->
        LET mask1 == RGe(xs[j], a_prev)
            mask2 == RGe(xs[j], a_current) /\ RLt(xs[j], a_prev)
            mask3 == RGe(xs[j], a_next) /\ RLt(xs[j], a_current)
        IN  IF mask3 THEN store(dtype, interpolate(xs[j], a_current, a_next))
            ELSE IF mask2 THEN store(dtype, One)
            ELSE IF mask1 THEN store(dtype, hyperbolic(xs[j], a_prev))
            ELSE Zero]

\* check_arguments with the length check weakened: a list longer than
\* total_levels is let through.
check_arguments_long_list(params, li, tl) ==
    IF li < 1 \/ li > tl THEN "ValueError"
    ELSE IF Len(params) < tl THEN "ValueError"
    ELSE "ok"

\* The two argument checks that open the function.
check_arguments(params, li, tl) ==
    IF li < 1 \/ li > tl THEN "ValueError"
    ELSE IF Len(params) # tl THEN "ValueError"
    ELSE "ok"

\* The body after the checks: dispatch on the level, then on isinstance.
level_membership(xx, params, li, tl) ==
    LET a_current == params[li]
    IN  IF li = 1 THEN
            LET a_next == IF tl > 1 THEN params[2] ELSE Zero
            IN  IF xx.kind = "scalar"
                THEN <<level_first_scalar(xx.vals[1], a_current, a_next)>>
                ELSE level_first_array(xx.vals, xx.dtype, a_current, a_next)
        ELSE IF li = tl THEN
            LET a_prev == params[li - 1]
            IN  IF xx.kind = "scalar"
                THEN <<level_last_scalar(xx.vals[1], a_prev, a_current)>>
                ELSE level_last_array(xx.vals, xx.dtype, a_prev, a_current)
        ELSE
            LET a_prev == params[li - 1]
                a_next == params[li + 1]
            IN  IF xx.kind = "scalar"
                THEN <<level_middle_scalar(xx.vals[1], a_prev, a_current, a_next)>>
                ELSE level_middle_array(xx.vals, xx.dtype, a_prev, a_current, a_next)

lower_bound_level_membership(xx, params, li, tl) ==
    IF check_arguments(params, li, tl) # "ok"
    THEN Raise(check_arguments(params, li, tl))
    ELSE LET value == level_membership(xx, params, li, tl)
         IN  IF xx.kind = "scalar" /\ value[1] = DivisionByZero
             THEN Raise("ZeroDivisionError")
             ELSE Ok(value)

(***************************************************************************)
(* The arguments a membership call is made with.                           *)
(***************************************************************************)
StrictlyDecreasing(s) == \A i \in 1..(Len(s) - 1) : s[i] > s[i + 1]

\* Strictly decreasing threshold lists a_1 > ... > a_h, values of any sign.
ThresholdLists ==
    LET raw == UNION {[1..n -> (-MaxThreshold)..MaxThreshold] : n \in 1..MaxLevels}
    IN  {[i \in 1..Len(s) |-> Whole(s[i])] : s \in {r \in raw : StrictlyDecreasing(r)}}

\* Input values: the integers and the half-integers around the thresholds.
XInts == {Whole(k) : k \in (-(MaxThreshold + 1))..(MaxThreshold + 1)}
XValues == {Rat(k, 2) : k \in (-(2 * MaxThreshold + 2))..(2 * MaxThreshold + 2)}

ScalarInputs == {[kind |-> "scalar", dtype |-> "float", vals |-> <<q>>] : q \in XValues}
ArrayInputs ==
    {[kind |-> "array", dtype |-> "float", vals |-> a] :
        a \in UNION {[1..n -> XValues] : n \in 1..MaxArrayLen}}
    \cup
    {[kind |-> "array", dtype |-> "int", vals |-> a] :
        a \in UNION {[1..n -> XInts] : n \in 1..MaxArrayLen}}

\* Calls whose arguments fail a check are made with these inputs only.
ProbeInputs == {xx \in ScalarInputs : xx.vals[1] \in {Zero, One}}

MembershipInit ==
    /\ pc = "call"
    /\ TableIdle
    /\ WorkflowIdle
    /\ level_params \in ThresholdLists
    /\ level_index \in 0..(MaxLevels + 1)
    /\ total_levels \in 1..(MaxLevels + 1)
    /\ x \in ScalarInputs \cup ArrayInputs
    /\ check_arguments(level_params, level_index, total_levels) # "ok" => x \in ProbeInputs
    /\ membership = NotCalled
    /\ normalized_matrices = <<>>
    /\ weights = [given |-> FALSE, vals |-> <<>>]
    /\ v = Rat(1, 2)
    /\ v_given = FALSE
    /\ comprehensive_membership = NotCalled
    /\ comprehensive_scores = NotCalled
    /\ membership_scores = NotCalled
    /\ vikor_scores = NotCalled
    /\ q_values = NotCalled
    /\ GradeIdle

\* One call of lower_bound_level_membership.
MembershipCall ==
    /\ pc = "call"
    /\ membership' = lower_bound_level_membership(x, level_params, level_index, total_levels)
    /\ pc' = "done"
    /\ UNCHANGED <<x, level_params, level_index, total_levels>>
    /\ UNCHANGED aggregationVars
    /\ UNCHANGED gradeVars
    /\ UNCHANGED tableVars
    /\ UNCHANGED workflowVars

MembershipNext == MembershipCall

MembershipSpec == MembershipInit /\ [][MembershipNext]_vars

(***************************************************************************)
(* Properties of lower_bound_level_membership.                             *)
(***************************************************************************)
Returned == pc = "done" /\ membership.status = "ok"
ScalarReturned == Returned /\ x.kind = "scalar"
InUnit(q) == RLe(Zero, q) /\ RLe(q, One)

\* C1: for every input, every strictly decreasing threshold list (values of
\* any sign, h >= 1) and every level in 1..h, the degree returned lies in
\* [0, 1].
C1_DegreeInUnitInterval ==
    Returned => \A j \in 1..Len(membership.vals) : InUnit(membership.vals[j])

\* The piecewise definition as the specification states it, for h >= 2.
RefMembership(xv, a, i, h) ==
    CASE i = 1 ->
            (CASE RGe(xv, a[1]) -> One
               [] RGe(xv, a[2]) /\ RLt(xv, a[1]) ->
                    RDiv(RSub(xv, a[2]), RSub(a[1], a[2]))
               [] OTHER -> Zero)
      [] i > 1 /\ i < h ->
            (CASE RGe(xv, a[i - 1]) /\ RGt(xv, Zero) -> RDiv(a[i - 1], xv)
               [] RGe(xv, a[i - 1]) /\ RLe(xv, Zero) -> Zero
               [] RGe(xv, a[i]) /\ RLt(xv, a[i - 1]) -> One
               [] RGe(xv, a[i + 1]) /\ RLt(xv, a[i]) ->
                    RDiv(RSub(xv, a[i + 1]), RSub(a[i], a[i + 1]))
               [] OTHER -> Zero)
      [] OTHER ->
            (CASE RGe(xv, a[h - 1]) /\ RGt(xv, Zero) -> RDiv(a[h - 1], xv)
               [] RGe(xv, a[h - 1]) /\ RLe(xv, Zero) -> Zero
               [] RGe(xv, a[h]) /\ RLt(xv, a[h - 1]) -> One
               [] RLt(xv, a[h]) /\ RLe(xv, Zero) -> One
               [] RLt(xv, a[h]) /\ RGt(a[h], Zero) -> RDiv(xv, a[h])
               [] OTHER -> Zero)

\* C2: for a scalar x, strictly decreasing thresholds (h >= 2) and a level
\* in 1..h, the function returns the value of the reference piecewise
\* operator.
C2_EqualsReference ==
    (ScalarReturned /\ total_levels >= 2) =>
        membership.vals[1] =
            RefMembership(x.vals[1], level_params, level_index, total_levels)

\* A last-level call below the last threshold with x <= 0, where the
\* correction applies.
C2_Witness ==
    /\ ScalarReturned
    /\ total_levels >= 2
    /\ level_index = total_levels
    /\ RLt(x.vals[1], level_params[total_levels])
    /\ RLe(x.vals[1], Zero)
    /\ membership.vals[1] = One

\* The value that the branch just below threshold a_j of level i takes at
\* x = a_j (j is i-1, i or i+1; the branch at and above a_j is the one the
\* function itself takes there).
BranchBelowAt(a, i, h, j) ==
    IF i = 1 THEN
        IF j = 1 THEN interpolate(a[1], a[1], a[2]) ELSE Zero
    ELSE IF i = h THEN
        IF j = h - 1 THEN One ELSE below_last(a[h], a[h])
    ELSE
        IF j = i - 1 THEN One
        ELSE IF j = i THEN interpolate(a[i], a[i], a[i + 1])
        ELSE Zero

\* The thresholds that separate two branches of level i.
Boundaries(i, h) ==
    IF i = 1 THEN {1, 2} ELSE IF i = h THEN {h - 1, h} ELSE {i - 1, i, i + 1}

\* C3: at every threshold a_j separating two adjacent branches of level i,
\* the value returned at x = a_j equals the value the branch on the other
\* side takes at a_j, for every strictly decreasing threshold list.
C3_ContinuousAtThresholds ==
    (ScalarReturned /\ total_levels >= 2) =>
        \A j \in Boundaries(level_index, total_levels) :
            x.vals[1] = level_params[j] =>
                membership.vals[1] =
                    BranchBelowAt(level_params, level_index, total_levels, j)

\* C4: the call raises an error and returns no degree whenever the level
\* index is outside 1..total_levels or the threshold list's length differs
\* from total_levels.
C4_InvalidArgumentsRaise ==
    (pc = "done" /\ (\/ level_index < 1
                     \/ level_index > total_levels
                     \/ Len(level_params) # total_levels)) =>
        membership.status = "ValueError" /\ membership.vals = <<>>

\* A call with a valid level index and a threshold list longer than
\* total_levels, which raised.
C4_Witness ==
    /\ pc = "done"
    /\ level_index \in 1..total_levels
    /\ Len(level_params) > total_levels
    /\ membership.status = "ValueError"

\* The scalar call on one element of an array input.
ScalarOf(q) == [kind |-> "scalar", dtype |-> "float", vals |-> <<q>>]

\* C5: element j of the result for an array input equals the result of the
\* call on the scalar X[j], for integer and for real arrays.
C5_ArrayEqualsScalar ==
    (Returned /\ x.kind = "array") =>
        \A j \in 1..Len(x.vals) :
            membership.vals[j] =
                lower_bound_level_membership(
                    ScalarOf(x.vals[j]), level_params, level_index, total_levels).vals[1]

(***************************************************************************)
(* Arithmetic on vectors of rationals.                                     *)
(***************************************************************************)
RECURSIVE RSum(_)
RSum(seq) == IF seq = <<>> THEN Zero ELSE RAdd(Head(seq), RSum(Tail(seq)))

Range(seq) == {seq[i] : i \in 1..Len(seq)}
RMax(seq) == CHOOSE q \in Range(seq) : \A r \in Range(seq) : RLe(r, q)
RMin(seq) == CHOOSE q \in Range(seq) : \A r \in Range(seq) : RLe(q, r)
Square(q) == RMul(q, q)

\* The integer square root (exact on a perfect square).
ISqrt(n) == CHOOSE r \in 0..n : r * r <= n /\ (r + 1) * (r + 1) > n
IsSquare(q) == ISqrt(q[1]) * ISqrt(q[1]) = q[1] /\ ISqrt(q[2]) * ISqrt(q[2]) = q[2]

\* np.sqrt.  The aggregation runs are drawn so that every distance is
\* rational (IsSquare holds of every argument), where this is the exact root.
RSqrt(q) == Rat(ISqrt(q[1]), ISqrt(q[2]))

(***************************************************************************)
(* TOPSISComprehensiveEvaluation                                           *)
(*                                                                         *)
(* normalized_matrices is the dict in insertion order: a sequence of       *)
(* matrices, matrix[f][l] the membership of factor f at level l.  The      *)
(* weights argument is [given, vals]; given = FALSE is None.               *)
(***************************************************************************)

\* Default weights of 1 for every factor.
default_weights_ones(num_factors) == [f \in 1..num_factors |-> One]

\* weights = [1.0 / num_factors] * num_factors
default_weights(num_factors) == [f \in 1..num_factors |-> Rat(1, num_factors)]

\* if weights is None: weights = default
resolve_weights(w, num_factors) ==
    IF w.given THEN w.vals ELSE default_weights(num_factors)

\* level_memberships = matrix[:, level_idx]
level_memberships(matrix, l) == [f \in 1..Len(matrix) |-> matrix[f][l]]

\* distance_positive with the weights left out of the sum.
distance_positive_unweighted(weights_array, col) ==
    RSqrt(RSum([f \in 1..Len(weights_array) |-> Square(RSub(col[f], One))]))

\* np.sqrt(np.sum(weights_array * (level_memberships - ideal_positive) ** 2))
distance_positive(weights_array, col) ==
    RSqrt(RSum([f \in 1..Len(weights_array) |->
                    RMul(weights_array[f], Square(RSub(col[f], One)))]))

\* np.sqrt(np.sum(weights_array * level_memberships ** 2))
distance_negative(weights_array, col) ==
    RSqrt(RSum([f \in 1..Len(weights_array) |->
                    RMul(weights_array[f], Square(col[f]))]))

\* The body of the loop over the objects: D+ and D- at every level.
topsis_distances(matrix, weights_array, num_levels) ==
    [d_positive |-> [l \in 1..num_levels |->
                        distance_positive(weights_array, level_memberships(matrix, l))],
     d_negative |-> [l \in 1..num_levels |->
                        distance_negative(weights_array, level_memberships(matrix, l))]]

calculate_comprehensive_membership(matrices, w) ==
    IF matrices = <<>> THEN Raise("StopIteration")     \* next(iter({}.values()))
    ELSE
        LET sample_matrix == matrices[1]
            num_factors == Len(sample_matrix)
            num_levels == Len(sample_matrix[1])
            weights_array == resolve_weights(w, num_factors)
        IN  IF Len(weights_array) # num_factors THEN Raise("ValueError")
            ELSE IF \E o \in 1..Len(matrices) : Len(matrices[o][1]) < num_levels
            THEN Raise("IndexError")     \* matrix[:, level_idx] past the last column
            ELSE Ok([o \in 1..Len(matrices) |->
                        topsis_distances(matrices[o], weights_array, num_levels)])

\* np.divide(d_negative, d_positive + d_negative, out=zeros, where=(sum != 0))
relative_closeness(d_positive, d_negative) ==
    IF RAdd(d_positive, d_negative) # Zero
    THEN RDiv(d_negative, RAdd(d_positive, d_negative))
    ELSE Zero

get_comprehensive_scores(distances) ==
    Ok([o \in 1..Len(distances.vals) |->
            [l \in 1..Len(distances.vals[o].d_positive) |->
                relative_closeness(distances.vals[o].d_positive[l],
                                   distances.vals[o].d_negative[l])]])

\* normalize_scores dividing by the largest score instead of the sum.
normalize_scores_by_max(scores) ==
    IF RGt(RMax(scores), Zero)
    THEN [l \in 1..Len(scores) |-> RDiv(scores[l], RMax(scores))]
    ELSE [l \in 1..Len(scores) |-> Zero]

\* scores / total_score if total_score > 0 else zeros
normalize_scores(scores) ==
    LET total_score == RSum(scores)
    IN  IF RGt(total_score, Zero)
        THEN [l \in 1..Len(scores) |-> RDiv(scores[l], total_score)]
        ELSE [l \in 1..Len(scores) |-> Zero]

calculate_comprehensive_membership_scores(scores) ==
    Ok([o \in 1..Len(scores.vals) |-> normalize_scores(scores.vals[o])])

(***************************************************************************)
(* VIKORComprehensiveEvaluation                                            *)
(***************************************************************************)

\* weights_array * (1 - level_memberships)
weighted_regrets(weights_array, col) ==
    [f \in 1..Len(weights_array) |-> RMul(weights_array[f], RSub(One, col[f]))]

\* The Q values of one object from its S and R values.
vikor_Q(S_values, R_values, vv) ==
    LET S_star == RMin(S_values)
        S_minus == RMax(S_values)
        R_star == RMin(R_values)
        R_minus == RMax(R_values)
        S_diff == RSub(S_minus, S_star)
        R_diff == RSub(R_minus, R_star)
        S_term(l) == RMul(vv, RDiv(RSub(S_values[l], S_star), S_diff))
        R_term(l) == RMul(RSub(One, vv), RDiv(RSub(R_values[l], R_star), R_diff))
    IN  IF S_diff = Zero /\ R_diff = Zero THEN
            [l \in 1..Len(S_values) |-> Zero]
        ELSE IF S_diff = Zero THEN
            [l \in 1..Len(S_values) |-> RAdd(RMul(vv, Zero), R_term(l))]
        ELSE IF R_diff = Zero THEN
            [l \in 1..Len(S_values) |-> RAdd(S_term(l), RMul(RSub(One, vv), Zero))]
        ELSE
            [l \in 1..Len(S_values) |-> RAdd(S_term(l), R_term(l))]

\* vikor_object with R taken as the smallest weighted regret.
vikor_object_min_regret(matrix, weights_array, num_levels, vv) ==
    LET S_values == [l \in 1..num_levels |->
                        RSum(weighted_regrets(weights_array, level_memberships(matrix, l)))]
        R_values == [l \in 1..num_levels |->
                        RMin(weighted_regrets(weights_array, level_memberships(matrix, l)))]
    IN  [S |-> S_values, R |-> R_values, Q |-> vikor_Q(S_values, R_values, vv)]

\* The body of the loop over the objects: S, R and Q at every level.
vikor_object(matrix, weights_array, num_levels, vv) ==
    LET S_values == [l \in 1..num_levels |->
                        RSum(weighted_regrets(weights_array, level_memberships(matrix, l)))]
        R_values == [l \in 1..num_levels |->
                        RMax(weighted_regrets(weights_array, level_memberships(matrix, l)))]
    IN  [S |-> S_values, R |-> R_values, Q |-> vikor_Q(S_values, R_values, vv)]

\* v: float = 0.5
default_v == Rat(1, 2)

\* The strategy weight the call computes with; va is [given, val].
resolve_v(va) == IF va.given THEN va.val ELSE default_v

calculate_comprehensive_scores(matrices, w, vv) ==
    IF matrices = <<>> THEN Raise("StopIteration")
    ELSE
        LET sample_matrix == matrices[1]
            num_factors == Len(sample_matrix)
            num_levels == Len(sample_matrix[1])
            weights_array == resolve_weights(w, num_factors)
        IN  IF Len(weights_array) # num_factors THEN Raise("ValueError")
            ELSE IF \E o \in 1..Len(matrices) : Len(matrices[o][1]) < num_levels
            THEN Raise("IndexError")     \* matrix[:, level_idx] past the last column
            ELSE Ok([o \in 1..Len(matrices) |->
                        vikor_object(matrices[o], weights_array, num_levels, vv)])

(***************************************************************************)
(* perform_vikor_comprehensive_evaluation: the ranking of the report.      *)
(* Objects are named by their position in the dict of scores.              *)
(***************************************************************************)

\* list.sort(key=lambda x: x[1]) is stable: pair e goes behind every pair
\* already placed whose key is <= its own.
insert_by_key(sorted, pair) ==
    LET n == Cardinality({i \in 1..Len(sorted) : RLe(sorted[i][2], pair[2])})
    IN  SubSeq(sorted, 1, n) \o <<pair>> \o SubSeq(sorted, n + 1, Len(sorted))

RECURSIVE sort_by_key(_)
sort_by_key(pairs) ==
    IF pairs = <<>> THEN <<>>
    ELSE insert_by_key(sort_by_key(SubSeq(pairs, 1, Len(pairs) - 1)), pairs[Len(pairs)])

\* q_values: (obj_name, scores["Q"][0]) of every object with a non-empty Q,
\* in dict order.
collect_q_values(scores) ==
    LET keep == {o \in 1..Len(scores) : scores[o].Q # <<>>}
        nth(k) == CHOOSE o \in keep : Cardinality({p \in keep : p < o}) = k - 1
    IN  [k \in 1..Cardinality(keep) |-> <<nth(k), scores[nth(k)].Q[1]>>]

\* q_values.sort(key=lambda x: x[1])
rank_by_Q(scores) == sort_by_key(collect_q_values(scores))

(***************************************************************************)
(* The arguments an aggregation run is made with.                          *)
(***************************************************************************)
FactorNames == <<"f1", "f2">>
NumFactors == Len(FactorNames)

\* Membership degrees: the two ends of [0, 1] and a value inside.
MembershipGrid == {Zero, Rat(1, 2), One}

WeightValues == {Whole(k) : k \in 0..MaxWeight} \cup {Rat(1, NumFactors)}
NoWeights == [given |-> FALSE, vals |-> <<>>]

\* None, a list with one weight per factor, or a list of another length.
WeightArguments ==
    {NoWeights}
    \cup {[given |-> TRUE, vals |-> w] : w \in [1..NumFactors -> WeightValues]}
    \cup {[given |-> TRUE, vals |-> w] :
            w \in [1..(NumFactors - 1) -> {Zero, One}] \cup [1..(NumFactors + 1) -> {Zero, One}]}

\* A column (one level of one object) whose D+ and D- are rational.
RationalColumn(weights_array, col) ==
    /\ IsSquare(RSum([f \in 1..NumFactors |->
                        RMul(weights_array[f], Square(RSub(col[f], One)))]))
    /\ IsSquare(RSum([f \in 1..NumFactors |->
                        RMul(weights_array[f], Square(col[f]))]))

RationalColumns(weights_array) ==
    {col \in [1..NumFactors -> MembershipGrid] : RationalColumn(weights_array, col)}

\* (objects, levels) of a run: one object with up to MaxAggLevels levels, or
\* two objects with one level each.  Every object's matrix has the same shape.
ObjectShapes ==
    {sh \in (1..2) \X (1..MaxAggLevels) : sh[1] = 1 \/ sh[2] = 1}

\* The dicts of matrices of every shape whose columns are drawn from cols,
\* the empty dict included.
MatricesOver(cols) ==
    LET build(cs, l) ==
            [o \in 1..Len(cs) |->
                [f \in 1..NumFactors |-> [k \in 1..l |-> cs[o][k][f]]]]
    IN  {<<>>} \cup
        UNION {{build(cs, sh[2]) : cs \in [1..sh[1] -> [1..sh[2] -> cols]]} :
                    sh \in ObjectShapes}

\* The weights a run on w computes with when the matrices have NumFactors rows.
WeightsUsed(w) ==
    IF w.given /\ Len(w.vals) = NumFactors THEN w.vals ELSE default_weights(NumFactors)

\* A run whose every D+ and D- is rational: the runs TOPSIS is applied to.
RationalRun(matrices, w) ==
    \A o \in 1..Len(matrices) : \A l \in 1..Len(matrices[o][1]) :
        RationalColumn(WeightsUsed(w), level_memberships(matrices[o], l))

\* The weights with which VIKOR is also run on every matrix over the grid.
UnrestrictedWeights ==
    {NoWeights,
     [given |-> TRUE, vals |-> <<One, One>>],
     [given |-> TRUE, vals |-> <<One, Whole(MaxWeight)>>]}

\* The strategy weights a VIKOR run is made with.
StrategyWeights == {Zero, Rat(1, 4), One}

\* Strategy weights outside [0, 1].
StrategyWeightsOutOfRange == {Rat(-1, 2), Whole(2)}

\* The v argument of a call: left out, or a number.
NoStrategy == [given |-> FALSE, val |-> Zero]
StrategyArguments ==
    {NoStrategy}
    \cup {[given |-> TRUE, val |-> q] : q \in StrategyWeights \cup StrategyWeightsOutOfRange}

AggregationInit ==
    /\ pc = "start"
    /\ TableIdle
    /\ WorkflowIdle
    /\ weights \in WeightArguments
    /\ normalized_matrices \in
            MatricesOver(RationalColumns(WeightsUsed(weights)))
            \cup (IF weights \in UnrestrictedWeights
                  THEN MatricesOver([1..NumFactors -> MembershipGrid]) ELSE {})
    /\ v = Rat(1, 2)
    /\ v_given = FALSE
    /\ comprehensive_membership = NotCalled
    /\ comprehensive_scores = NotCalled
    /\ membership_scores = NotCalled
    /\ vikor_scores = NotCalled
    /\ q_values = NotCalled
    /\ GradeIdle
    /\ x = ScalarOf(Zero)
    /\ level_params = <<>>
    /\ level_index = 0
    /\ total_levels = 0
    /\ membership = NotCalled

\* TOPSISComprehensiveEvaluation.calculate_comprehensive_membership
TopsisDistances ==
    /\ pc = "start"
    /\ RationalRun(normalized_matrices, weights)
    /\ comprehensive_membership' =
            calculate_comprehensive_membership(normalized_matrices, weights)
    /\ pc' = IF comprehensive_membership'.status = "ok" THEN "distances" ELSE "topsis_failed"
    /\ UNCHANGED <<normalized_matrices, weights, v, v_given, comprehensive_scores,
                   membership_scores, vikor_scores, q_values>>
    /\ UNCHANGED membershipVars
    /\ UNCHANGED gradeVars
    /\ UNCHANGED tableVars
    /\ UNCHANGED workflowVars

\* TOPSISComprehensiveEvaluation.get_comprehensive_scores
TopsisScores ==
    /\ pc = "distances"
    /\ comprehensive_scores' = get_comprehensive_scores(comprehensive_membership)
    /\ pc' = "scores"
    /\ UNCHANGED <<normalized_matrices, weights, v, v_given, comprehensive_membership,
                   membership_scores, vikor_scores, q_values>>
    /\ UNCHANGED membershipVars
    /\ UNCHANGED gradeVars
    /\ UNCHANGED tableVars
    /\ UNCHANGED workflowVars

\* TOPSISComprehensiveEvaluation.calculate_comprehensive_membership_scores
TopsisMembershipScores ==
    /\ pc = "scores"
    /\ membership_scores' = calculate_comprehensive_membership_scores(comprehensive_scores)
    /\ pc' = "topsis_done"
    /\ UNCHANGED <<normalized_matrices, weights, v, v_given, comprehensive_membership,
                   comprehensive_scores, vikor_scores, q_values>>
    /\ UNCHANGED membershipVars
    /\ UNCHANGED gradeVars
    /\ UNCHANGED tableVars
    /\ UNCHANGED workflowVars

\* VIKORComprehensiveEvaluation.calculate_comprehensive_scores
VikorScores ==
    /\ pc = "start"
    /\ \E va \in StrategyArguments :
        /\ v_given' = va.given
        /\ v' = resolve_v(va)
        /\ vikor_scores' =
                calculate_comprehensive_scores(normalized_matrices, weights, resolve_v(va))
    /\ pc' = IF vikor_scores'.status = "ok" THEN "vikor_done" ELSE "vikor_failed"
    /\ UNCHANGED <<normalized_matrices, weights, comprehensive_membership,
                   comprehensive_scores, membership_scores, q_values>>
    /\ UNCHANGED membershipVars
    /\ UNCHANGED gradeVars
    /\ UNCHANGED tableVars
    /\ UNCHANGED workflowVars

\* perform_vikor_comprehensive_evaluation: the Q ranking of the report table.
VikorRanking ==
    /\ pc = "vikor_done"
    /\ q_values' = Ok(rank_by_Q(vikor_scores.vals))
    /\ pc' = "vikor_ranked"
    /\ UNCHANGED <<normalized_matrices, weights, v, v_given, comprehensive_membership,
                   comprehensive_scores, membership_scores, vikor_scores>>
    /\ UNCHANGED membershipVars
    /\ UNCHANGED gradeVars
    /\ UNCHANGED tableVars
    /\ UNCHANGED workflowVars

AggregationNext ==
    \/ TopsisDistances
    \/ TopsisScores
    \/ TopsisMembershipScores
    \/ VikorScores
    \/ VikorRanking

AggregationSpec == AggregationInit /\ [][AggregationNext]_vars

\* Every square root taken in a run is exact.
DistancesExact ==
    pc = "distances" =>
        \A o \in 1..Len(normalized_matrices) :
            \A l \in 1..Len(normalized_matrices[o][1]) :
                LET col == level_memberships(normalized_matrices[o], l)
                    wa == resolve_weights(weights, NumFactors)
                IN  /\ Square(comprehensive_membership.vals[o].d_positive[l]) =
                         RSum([f \in 1..NumFactors |-> RMul(wa[f], Square(RSub(col[f], One)))])
                    /\ Square(comprehensive_membership.vals[o].d_negative[l]) =
                         RSum([f \in 1..NumFactors |-> RMul(wa[f], Square(col[f]))])

(***************************************************************************)
(* Properties of the TOPSIS and VIKOR aggregators.                         *)
(***************************************************************************)
Objects == 1..Len(normalized_matrices)
Levels == 1..Len(normalized_matrices[1][1])
HasDistances == comprehensive_membership.status = "ok"
HasScores == comprehensive_scores.status = "ok"
HasMembershipScores == membership_scores.status = "ok"
HasVikor == vikor_scores.status = "ok"

\* The weight of factor f in the run: the one given, else 1/num_factors.
WeightOf(f) == IF weights.given THEN weights.vals[f] ELSE Rat(1, NumFactors)

\* sum over the factors 1..n of w_f * t(m[f, l])
RECURSIVE SumOverFactors(_, _, _, _)
SumOverFactors(T(_), o, l, n) ==
    IF n = 0 THEN Zero
    ELSE RAdd(SumOverFactors(T, o, l, n - 1),
              RMul(WeightOf(n), T(normalized_matrices[o][n][l])))

RECURSIVE SumOverLevels(_, _)
SumOverLevels(vec, n) ==
    IF n = 0 THEN Zero ELSE RAdd(SumOverLevels(vec, n - 1), vec[n])

C7_ClosenessInUnitAndMembershipSumsToOne ==
    /\ HasScores =>
        \A o \in Objects : \A l \in Levels : InUnit(comprehensive_scores.vals[o][l])
    /\ HasMembershipScores =>
        \A o \in Objects :
            (\E l \in Levels : RGt(comprehensive_scores.vals[o][l], Zero)) =>
                SumOverLevels(membership_scores.vals[o], Len(membership_scores.vals[o])) = One

\* A finished run with two levels of positive closeness, one strictly
\* inside (0, 1).
C7_Witness ==
    /\ pc = "topsis_done"
    /\ \E o \in Objects : \E l1, l2 \in Levels :
        /\ l1 # l2
        /\ RGt(comprehensive_scores.vals[o][l1], Zero)
        /\ RLt(comprehensive_scores.vals[o][l1], One)
        /\ RGt(comprehensive_scores.vals[o][l2], Zero)

\* The explicit weight list with every weight 1/num_factors.
UniformWeights ==
    [given |-> TRUE,
     vals |-> [f \in 1..Len(normalized_matrices[1]) |->
                    Rat(1, Len(normalized_matrices[1]))]]

WeightsMismatch ==
    weights.given /\ Len(weights.vals) # Len(normalized_matrices[1])

\* C8: in TOPSIS and in VIKOR, omitting the weights gives exactly the result
\* of the call with every weight 1/num_factors, and a weight list whose
\* length differs from the number of matrix rows makes the call fail with an
\* error and no result.
C8_DefaultAndMismatchedWeights ==
    normalized_matrices # <<>> =>
        /\ (comprehensive_membership.status # "none" /\ ~weights.given) =>
                comprehensive_membership =
                    calculate_comprehensive_membership(normalized_matrices, UniformWeights)
        /\ (vikor_scores.status # "none" /\ ~weights.given) =>
                vikor_scores =
                    calculate_comprehensive_scores(normalized_matrices, UniformWeights, v)
        /\ (comprehensive_membership.status # "none" /\ WeightsMismatch) =>
                comprehensive_membership = Raise("ValueError")
        /\ (vikor_scores.status # "none" /\ WeightsMismatch) =>
                vikor_scores = Raise("ValueError")

\* A VIKOR run without weights on a matrix whose S values are not all zero.
C8_Witness ==
    /\ pc = "vikor_done"
    /\ ~weights.given
    /\ \E o \in Objects : \E l \in Levels : vikor_scores.vals[o].S[l] # Zero

\* The weights of the run multiplied by c.
Scaled(c) ==
    [given |-> TRUE,
     vals |-> [f \in 1..Len(weights.vals) |-> RMul(c, weights.vals[f])]]

\* Scale factors: those with a rational square root for TOPSIS, and others
\* besides for VIKOR.
ScaleFactors == {Rat(1, 4), Whole(4)}
VikorScaleFactors == ScaleFactors \cup {Whole(3)}

ScalableRun == normalized_matrices # <<>> /\ weights.given /\ ~WeightsMismatch

\* The TOPSIS outputs of the run's matrices under the weights scaled by c.
TopsisOutputsScaled(c) ==
    LET D == calculate_comprehensive_membership(normalized_matrices, Scaled(c))
        V == get_comprehensive_scores(D)
    IN  [D |-> D, V |-> V, U |-> calculate_comprehensive_membership_scores(V)]

\* The VIKOR outputs of the run's matrices under the weights scaled by c.
VikorOutputsScaled(c) ==
    calculate_comprehensive_scores(normalized_matrices, Scaled(c), v)

\* C9 as stated: for every non-negative weight list w and constant c > 0 the
\* TOPSIS outputs (D+, D-, V, U) and the VIKOR outputs (S, R, Q) computed
\* with c*w equal those computed with w.
C9_OutputsUnchangedByScaling ==
    ScalableRun =>
        /\ (HasDistances \/ HasScores \/ HasMembershipScores) =>
            \A c \in ScaleFactors :
                LET scaled == TopsisOutputsScaled(c)
                IN  /\ HasDistances => comprehensive_membership = scaled.D
                    /\ HasScores => comprehensive_scores = scaled.V
                    /\ HasMembershipScores => membership_scores = scaled.U
        /\ HasVikor =>
            \A c \in VikorScaleFactors : vikor_scores = VikorOutputsScaled(c)

\* What scaling does: the weights are used as given.  With weights c*w the
\* TOPSIS V and U and the VIKOR Q equal those computed with w, while D+ and
\* D- are multiplied by sqrt(c) and S and R by c.
ScalingLaw ==
    ScalableRun =>
        /\ (HasDistances \/ HasScores \/ HasMembershipScores) =>
            \A c \in ScaleFactors :
                LET scaled == TopsisOutputsScaled(c)
                    D == comprehensive_membership.vals
                IN  /\ HasDistances =>
                        \A o \in Objects :
                            /\ [l \in Levels |-> Square(scaled.D.vals[o].d_positive[l])] =
                                 [l \in Levels |-> RMul(c, Square(D[o].d_positive[l]))]
                            /\ [l \in Levels |-> Square(scaled.D.vals[o].d_negative[l])] =
                                 [l \in Levels |-> RMul(c, Square(D[o].d_negative[l]))]
                    /\ HasScores => comprehensive_scores = scaled.V
                    /\ HasMembershipScores => membership_scores = scaled.U
        /\ HasVikor =>
            \A c \in VikorScaleFactors :
                LET scaled == VikorOutputsScaled(c).vals
                IN  \A o \in Objects :
                        /\ scaled[o].Q = vikor_scores.vals[o].Q
                        /\ scaled[o].S =
                             [l \in Levels |-> RMul(c, vikor_scores.vals[o].S[l])]
                        /\ scaled[o].R =
                             [l \in Levels |-> RMul(c, vikor_scores.vals[o].R[l])]

\* a / b, counted as 0 when b = 0.
Ratio(a, b) == IF b = Zero THEN Zero ELSE RDiv(a, b)

IsLeast(q, vec) ==
    (\E l \in 1..Len(vec) : vec[l] = q) /\ (\A l \in 1..Len(vec) : RLe(q, vec[l]))
IsGreatest(q, vec) ==
    (\E l \in 1..Len(vec) : vec[l] = q) /\ (\A l \in 1..Len(vec) : RLe(vec[l], q))

\* C10: for every object and level, S[l] = sum_f w_f (1 - m[f,l]),
\* R[l] = max_f w_f (1 - m[f,l]), S*, S-, R*, R- are the least and greatest
\* S and R over the levels, and
\* Q[l] = v (S[l]-S*)/(S- - S*) + (1-v) (R[l]-R*)/(R- - R*), a ratio with a
\* zero denominator counting as 0 and no exception being raised.
C10_VikorEqualsReference ==
    LET Regret(m) == RSub(One, m)
        WeightedRegret(o, l) ==
            [f \in 1..NumFactors |->
                RMul(WeightOf(f), Regret(normalized_matrices[o][f][l]))]
    IN  /\ (vikor_scores.status # "none" /\ normalized_matrices # <<>>
                /\ ~WeightsMismatch) => HasVikor
        /\ HasVikor =>
            \A o \in Objects :
                LET S == vikor_scores.vals[o].S
                    R == vikor_scores.vals[o].R
                    Q == vikor_scores.vals[o].Q
                IN  \E S_star, S_minus \in Range(S) : \E R_star, R_minus \in Range(R) :
                        /\ IsLeast(S_star, S) /\ IsGreatest(S_minus, S)
                        /\ IsLeast(R_star, R) /\ IsGreatest(R_minus, R)
                        /\ \A l \in Levels :
                            /\ S[l] = SumOverFactors(Regret, o, l, NumFactors)
                            /\ IsGreatest(R[l], WeightedRegret(o, l))
                            /\ Q[l] =
                                RAdd(RMul(v, Ratio(RSub(S[l], S_star),
                                                   RSub(S_minus, S_star))),
                                     RMul(RSub(One, v), Ratio(RSub(R[l], R_star),
                                                              RSub(R_minus, R_star))))

\* A VIKOR run in which all S of an object are equal and its R are not: Q is
\* the (1-v)-weighted R term alone, and is not all zero.
C10_Witness ==
    /\ pc = "vikor_done"
    /\ v # One
    /\ \E o \in Objects :
        /\ \A l1, l2 \in Levels : vikor_scores.vals[o].S[l1] = vikor_scores.vals[o].S[l2]
        /\ \E l1, l2 \in Levels : vikor_scores.vals[o].R[l1] # vikor_scores.vals[o].R[l2]
        /\ \E l \in Levels : vikor_scores.vals[o].Q[l] # Zero
        /\ \E l \in Levels : vikor_scores.vals[o].S[l] # Zero

(***************************************************************************)
(* Properties of the strategy weight and of the VIKOR ranking.             *)
(***************************************************************************)
VikorCalled == vikor_scores.status # "none"
InRange(q) == RGe(q, Zero) /\ RLe(q, One)

\* C11: VIKOR computes with v = 0.5 when v is not given, and a strategy
\* weight v outside [0, 1] is rejected with an error before any S, R or Q
\* value is returned.
C11_DefaultAndRangeOfStrategyWeight ==
    VikorCalled =>
        /\ ~v_given =>
            vikor_scores = calculate_comprehensive_scores(normalized_matrices, weights,
                                                          Rat(1, 2))
        /\ (v_given /\ ~InRange(v)) => vikor_scores.status \notin {"ok", "none"}

\* The part of C11 that holds: a call without v computes with v = 0.5.
DefaultStrategyWeight ==
    (VikorCalled /\ ~v_given) =>
        /\ v = Rat(1, 2)
        /\ vikor_scores = calculate_comprehensive_scores(normalized_matrices, weights,
                                                         Rat(1, 2))

\* The row of the ranking table of the object at position i.
RankedObject(i) == q_values.vals[i][1]
ShownQ(o) == vikor_scores.vals[o].Q[1]
ShownS(o) == vikor_scores.vals[o].S[1]
ShownR(o) == vikor_scores.vals[o].R[1]

\* Object a is to be listed before object b: ascending Q, then ascending S,
\* then ascending R, then the original order.
ListedBefore(a, b) ==
    \/ RLt(ShownQ(a), ShownQ(b))
    \/ ShownQ(a) = ShownQ(b) /\ RLt(ShownS(a), ShownS(b))
    \/ ShownQ(a) = ShownQ(b) /\ ShownS(a) = ShownS(b) /\ RLt(ShownR(a), ShownR(b))
    \/ ShownQ(a) = ShownQ(b) /\ ShownS(a) = ShownS(b) /\ ShownR(a) = ShownR(b) /\ a < b

\* C12: the VIKOR ranking lists the objects by ascending Q, objects equal in
\* Q by ascending S, objects equal in Q and S by ascending R, and objects
\* equal in all three in their original order.
C12_RankingOrder ==
    pc = "vikor_ranked" =>
        /\ {RankedObject(i) : i \in 1..Len(q_values.vals)} = Objects
        /\ \A i, j \in 1..Len(q_values.vals) :
            i < j => ListedBefore(RankedObject(i), RankedObject(j))

\* What the ranking does: every object is listed once, by ascending Q, and
\* objects of equal Q keep the order of the dict of scores.
RankedByQAlone ==
    pc = "vikor_ranked" =>
        /\ Len(q_values.vals) = Len(normalized_matrices)
        /\ {RankedObject(i) : i \in 1..Len(q_values.vals)} = Objects
        /\ \A i, j \in 1..Len(q_values.vals) :
            i < j =>
                \/ RLt(ShownQ(RankedObject(i)), ShownQ(RankedObject(j)))
                \/ /\ ShownQ(RankedObject(i)) = ShownQ(RankedObject(j))
                   /\ RankedObject(i) < RankedObject(j)

(***************************************************************************)
(* GradeComprehensiveAssessment                                            *)
(*                                                                         *)
(* membership_scores is the dict in insertion order: a sequence of         *)
(* membership vectors, one per object.                                     *)
(***************************************************************************)
MaxGradeLevels == 3     \* vectors have 0 .. MaxGradeLevels entries

\* v_value = 0.0; for k, u_jk in enumerate(u_vector, start=0): v_value += k * u_jk
RECURSIVE characteristic_value_from_zero(_)
characteristic_value_from_zero(u_vector) ==
    IF u_vector = <<>> THEN Zero
    ELSE RAdd(characteristic_value_from_zero(SubSeq(u_vector, 1, Len(u_vector) - 1)),
              RMul(Whole(Len(u_vector) - 1), u_vector[Len(u_vector)]))

\* v_value = 0.0; for k, u_jk in enumerate(u_vector, start=1): v_value += k * u_jk
RECURSIVE characteristic_value(_)
characteristic_value(u_vector) ==
    IF u_vector = <<>> THEN Zero
    ELSE RAdd(characteristic_value(SubSeq(u_vector, 1, Len(u_vector) - 1)),
              RMul(Whole(Len(u_vector)), u_vector[Len(u_vector)]))

calculate_level_characteristic_values(scores) ==
    Ok([o \in 1..Len(scores.vals) |-> characteristic_value(scores.vals[o])])

\* The largest integer <= q.
Floor(q) == q[1] \div q[2]

\* Rounding with ties going up.
round_half_up(q) == Floor(RAdd(q, Rat(1, 2)))

\* Python's round(float): the nearest integer, a tie going to the even one.
round(q) ==
    LET low == Floor(q)
        rest == RSub(q, Whole(low))
    IN  IF RLt(rest, Rat(1, 2)) THEN low
        ELSE IF RGt(rest, Rat(1, 2)) THEN low + 1
        ELSE IF low % 2 = 0 THEN low ELSE low + 1

Max(a, b) == IF a >= b THEN a ELSE b
Min(a, b) == IF a <= b THEN a ELSE b

\* max(1, k): the clamp without its upper end.
clamp_level_from_below(k, h) == Max(1, k)

\* max(1, min(k, num_levels))
clamp_level(k, h) == Max(1, Min(k, h))

\* (k, alpha) of one object.
binary_semantic(v_value, h) ==
    LET k == clamp_level(round(v_value), h)
    IN  <<k, RSub(v_value, Whole(k))>>

perform_binary_semantic_assessment(values, h) ==
    Ok([o \in 1..Len(values.vals) |-> binary_semantic(values.vals[o], h)])

\* generate_comprehensive_assessment_report reads the length of the first
\* vector: next(iter(membership_scores.values())).
generate_comprehensive_assessment_report(scores) ==
    IF scores.vals = <<>> THEN Raise("StopIteration") ELSE Ok(<<>>)

(***************************************************************************)
(* The arguments a grade assessment is made with.                          *)
(***************************************************************************)

\* Entries of a membership vector: degrees in [0, 1] and one above 1.
GradeValues == {Zero, Rat(1, 4), Rat(1, 2), One, Rat(3, 2)}

GradeVectors == UNION {[1..n -> GradeValues] : n \in 0..MaxGradeLevels}

\* test_membership_scores of the module's test.
TestMembershipScores ==
    << <<Rat(382, 1000), Rat(297, 1000), Rat(205, 1000), Rat(116, 1000)>>,
       <<Rat(250, 1000), Rat(250, 1000), Rat(250, 1000), Rat(250, 1000)>>,
       <<Rat(100, 1000), Rat(200, 1000), Rat(300, 1000), Rat(400, 1000)>>,
       <<Rat(400, 1000), Rat(300, 1000), Rat(200, 1000), Rat(100, 1000)>> >>

\* Dicts of vectors: empty, of one object, of two objects with short vectors,
\* and the dict of the test.
MembershipScoreDicts ==
    {<<>>, TestMembershipScores}
    \cup {<<u>> : u \in GradeVectors}
    \cup {<<u1, u2>> : u1, u2 \in {u \in GradeVectors : Len(u) <= 1}}

GradeInit ==
    /\ pc = "grade_start"
    /\ TableIdle
    /\ WorkflowIdle
    /\ membership_scores \in {Ok(d) : d \in MembershipScoreDicts}
    /\ grade_levels \in 1..(MaxGradeLevels + 1)
    /\ level_characteristic_values = NotCalled
    /\ binary_semantic_results = NotCalled
    /\ assessment_result = NotCalled
    /\ normalized_matrices = <<>>
    /\ weights = [given |-> FALSE, vals |-> <<>>]
    /\ v = Rat(1, 2)
    /\ v_given = FALSE
    /\ comprehensive_membership = NotCalled
    /\ comprehensive_scores = NotCalled
    /\ vikor_scores = NotCalled
    /\ q_values = NotCalled
    /\ x = [kind |-> "scalar", dtype |-> "float", vals |-> <<Zero>>]
    /\ level_params = <<>>
    /\ level_index = 0
    /\ total_levels = 0
    /\ membership = NotCalled

\* assess_comprehensive_grade, first step: calculate_level_characteristic_values
GradeCharacteristicValues ==
    /\ pc = "grade_start"
    /\ level_characteristic_values' = calculate_level_characteristic_values(membership_scores)
    /\ pc' = "characteristic"
    /\ UNCHANGED <<grade_levels, binary_semantic_results, assessment_result>>
    /\ UNCHANGED <<membershipVars, aggregationVars, tableVars, workflowVars>>

\* assess_comprehensive_grade, second step: perform_binary_semantic_assessment
GradeBinarySemantic ==
    /\ pc = "characteristic"
    /\ binary_semantic_results' =
            perform_binary_semantic_assessment(level_characteristic_values, grade_levels)
    /\ pc' = "binary_semantic"
    /\ UNCHANGED <<grade_levels, level_characteristic_values, assessment_result>>
    /\ UNCHANGED <<membershipVars, aggregationVars, tableVars, workflowVars>>

\* assess_comprehensive_grade, last step: the report and the returned dict.
GradeReport ==
    /\ pc = "binary_semantic"
    /\ assessment_result' = generate_comprehensive_assessment_report(membership_scores)
    /\ pc' = IF assessment_result'.status = "ok" THEN "grade_done" ELSE "grade_failed"
    /\ UNCHANGED <<grade_levels, level_characteristic_values, binary_semantic_results>>
    /\ UNCHANGED <<membershipVars, aggregationVars, tableVars, workflowVars>>

GradeNext ==
    \/ GradeCharacteristicValues
    \/ GradeBinarySemantic
    \/ GradeReport

GradeSpec == GradeInit /\ [][GradeNext]_vars

(***************************************************************************)
(* Properties of the grade assessment.                                     *)
(***************************************************************************)
GradedObjects == 1..Len(membership_scores.vals)
HasCharacteristicValues == level_characteristic_values.status = "ok"
HasGrades == binary_semantic_results.status = "ok"
Within(a, b, tolerance) == RLe(RSub(a, b), tolerance) /\ RLe(RSub(b, a), tolerance)

NearestEven(n, q) ==
    LET d == RSub(q, Whole(n))
    IN  \/ RLt(d, Rat(1, 2)) /\ RGt(d, Rat(-1, 2))
        \/ d \in {Rat(1, 2), Rat(-1, 2)} /\ n % 2 = 0

Clamped(n, h) == IF n < 1 THEN 1 ELSE IF n > h THEN h ELSE n

C15_LevelInRangeAndOffset ==
    HasGrades =>
        \A o \in GradedObjects :
            LET k == binary_semantic_results.vals[o][1]
                alpha == binary_semantic_results.vals[o][2]
            IN  /\ 1 <= k /\ k <= grade_levels
                /\ alpha = RSub(level_characteristic_values.vals[o], Whole(k))

\* A characteristic value more than one above h, graded h.
C15_Witness ==
    /\ pc = "grade_done"
    /\ \E o \in GradedObjects :
        /\ RGt(level_characteristic_values.vals[o], Whole(grade_levels + 1))
        /\ binary_semantic_results.vals[o][1] = grade_levels

\* C16: the assessment fails with an error, and returns no grade, when an
\* object's membership vector is empty or its length differs from num_levels.
C16_InvalidVectorsRaise ==
    (/\ assessment_result.status # "none"
     /\ \E o \in GradedObjects : Len(membership_scores.vals[o]) # grade_levels) =>
        assessment_result.status # "ok"

(***************************************************************************)
(* Tables, polarity adjustment and the resource cache.                     *)
(*                                                                         *)
(* A table maps a column name to the column's cells, one per row.  A cell  *)
(* is a number q, the float 1 / (q + 1e-10) of a number q, or a text.      *)
(* A dict is a function; Put is the assignment d[k] = val.                 *)
(***************************************************************************)
MaxRows == 2            \* tables have MaxRows rows

Put(d, k, val) == [key \in DOMAIN d \cup {k} |-> IF key = k THEN val ELSE d[key]]

Number(q) == [kind |-> "number", val |-> q]
Reciprocal(q) == [kind |-> "reciprocal", val |-> q]
Text == [kind |-> "text", val |-> Zero]

\* a < b for two numbers, or for two reciprocals: 1 / (p + 1e-10) and
\* 1 / (q + 1e-10) with p, q zero or of magnitude above 1e-10, as every
\* number of a table here is.  p + 1e-10 is positive exactly when p >= 0, and
\* of two reciprocals with the same sign the one of the larger p is the smaller.
CellLt(a, b) ==
    IF a.kind = "number"
    THEN RLt(a.val, b.val)
    ELSE LET a_positive == RGe(a.val, Zero)
             b_positive == RGe(b.val, Zero)
         IN  IF a_positive = b_positive THEN RLt(b.val, a.val) ELSE b_positive

\* df.select_dtypes(include=[np.number]).columns
is_numeric(column) == \A r \in DOMAIN column : column[r].kind # "text"
\* Every column taken for numeric.
all_columns(table) == DOMAIN table
numeric_columns(table) == {col \in DOMAIN table : is_numeric(table[col])}

ColumnValues(column) == [r \in DOMAIN column |-> column[r].val]

\* 1 / (df[col] + 1e-10)
inverse_transform(column) == [r \in DOMAIN column |-> Reciprocal(column[r].val)]

\* The columns apply_polarity_adjustment transforms.
max_columns(results) ==
    {col \in DOMAIN results :
        results[col].suggested_polarity = "max" /\ results[col].detection_successful}

\* The adjustment made on the caller's table instead of on a copy of it.
apply_polarity_adjustment_in_place(table, results) ==
    LET todo == max_columns(results)
        adjusted == [col \in DOMAIN table |->
                        IF col \in todo /\ is_numeric(table[col])
                        THEN inverse_transform(table[col]) ELSE table[col]]
    IN  IF \E col \in todo : col \notin DOMAIN table
        THEN [df |-> adjusted, result |-> Raise("KeyError")]
        ELSE IF \E col \in todo : ~is_numeric(table[col])
        THEN [df |-> adjusted, result |-> Raise("TypeError")]
        ELSE [df |-> adjusted, result |-> Ok(adjusted)]

\* apply_polarity_adjustment(df, polarity_results): the caller's table after the
\* call, and the table returned or the exception raised.
apply_polarity_adjustment(table, results) ==
    LET todo == max_columns(results)
    IN  IF \E col \in todo : col \notin DOMAIN table
        THEN [df |-> table, result |-> Raise("KeyError")]
        ELSE IF \E col \in todo : ~is_numeric(table[col])
        THEN [df |-> table, result |-> Raise("TypeError")]
        ELSE [df |-> table,
              result |-> Ok([col \in DOMAIN table |->
                                IF col \in todo
                                THEN inverse_transform(table[col]) ELSE table[col]])]

\* The keyword match of auto_detect_polarity on a column's name.
max_indicators == {"score"}
min_indicators == {"cost"}
name_polarity(col) ==
    IF col \in max_indicators /\ col \notin min_indicators THEN "max"
    ELSE IF col \in min_indicators /\ col \notin max_indicators THEN "min"
    ELSE "unknown"

\* auto_detect_polarity(df, numeric_analysis): the strategy text of a 'max'
\* column formats 1/a, a the column's minimum.
auto_detect_polarity(table, numeric_analysis) ==
    IF \E col \in numeric_analysis :
            name_polarity(col) = "max" /\ RMin(ColumnValues(table[col])) = Zero
    THEN Raise("ZeroDivisionError")
    ELSE Ok([col \in numeric_analysis |->
                [suggested_polarity |-> name_polarity(col),
                 detection_successful |-> name_polarity(col) # "unknown"]])

\* Resource ids and URIs.  An id is {type}_{uuid}_{parent_hash}_{step}; a URI
\* is a scheme followed by an id.  unique_id stands for the 8 characters of a
\* fresh uuid4; parent_hash, the first characters of the parent id's md5, is
\* modelled by the parent's unique_id (0 for no parent).
RESOURCE_TYPES ==
    [raw_data |-> "raw", field_analysis |-> "fa", membership_calc |-> "mc",
     multi_criteria |-> "mcr", binary_semantic |-> "bs", other |-> "other"]

\* "".join(c for c in step_name if c.isalnum()).lower()[:10], on the step
\* names the tools pass.
step_suffix(step_name) ==
    CASE step_name = "polarity_adjusted" -> "polarityad"
      [] step_name = "membership_calculation" -> "membership"
      [] step_name = "topsis_evaluation" -> "topsiseval"
      [] step_name = "vikor_evaluation" -> "vikorevalu"
      [] step_name = "grade_assessment" -> "gradeasses"
      [] OTHER -> ""

NoId == [type_code |-> "", unique_id |-> 0, parent_hash |-> 0, step |-> ""]
generate_resource_id(uuid, resource_type, parent, step_name) ==
    [type_code |-> IF resource_type \in DOMAIN RESOURCE_TYPES
                   THEN RESOURCE_TYPES[resource_type] ELSE RESOURCE_TYPES["other"],
     unique_id |-> uuid,
     parent_hash |-> parent.unique_id,
     step |-> step_suffix(step_name)]
get_resource_uri(resource_id) == [scheme |-> "data://", id |-> resource_id]
NoUri == [scheme |-> "", id |-> NoId]

load_resource_from_persistent_storage(cache, index, resource_id) ==
    IF resource_id \notin DOMAIN index THEN Raise("ValueError")
    ELSE IF index[resource_id] \notin DOMAIN cache THEN Raise("ValueError")
    ELSE Ok(cache[index[resource_id]])

\* save_resource_to_persistent_storage(resource_id, df)
save_resource_to_persistent_storage(cache, index, resource_id, table) ==
    [cache |-> Put(cache, get_resource_uri(resource_id), table),
     index |-> Put(index, resource_id, get_resource_uri(resource_id))]

\* max_val - df[col] with max_val = df[col].max() * 1.5
reference_factor == Rat(3, 2)
linear_reflection(column) ==
    LET max_val == RMul(RMax(ColumnValues(column)), reference_factor)
    IN  [r \in DOMAIN column |-> Number(RSub(max_val, column[r].val))]

\* apply_polarity_adjustment_tool(original_resource_uri, polarity_config): the
\* cache and the index after the call, and what the call returned.  uuid is
\* the fresh identifier drawn for the adjusted resource.
apply_polarity_adjustment_tool(cache, index, uri, config, uuid) ==
    IF uri.scheme # "data://"
    THEN [cache |-> cache, index |-> index, result |-> Raise("ValueError")]
    ELSE
    LET loaded == IF uri \in DOMAIN cache THEN Ok(cache[uri])
                  ELSE load_resource_from_persistent_storage(cache, index, uri.id)
    IN  IF loaded.status # "ok"
        THEN [cache |-> cache, index |-> index, result |-> Raise("ValueError")]
        ELSE
        LET cache1 == IF uri \in DOMAIN cache THEN cache ELSE Put(cache, uri, loaded.vals)
            table == cache1[uri]
        IN  IF \E col \in DOMAIN config : col \notin numeric_columns(table)
            THEN [cache |-> cache1, index |-> index, result |-> Raise("ValueError")]
            ELSE
            LET adjusted == [col \in DOMAIN table |->
                                IF col \in DOMAIN config /\ config[col] = "max"
                                THEN linear_reflection(table[col]) ELSE table[col]]
                adjusted_resource_id ==
                    generate_resource_id(uuid, "raw_data", uri.id, "polarity_adjusted")
                adjusted_uri == get_resource_uri(adjusted_resource_id)
                saved == save_resource_to_persistent_storage(
                             Put(cache1, adjusted_uri, adjusted), index,
                             adjusted_resource_id, adjusted)
            IN  [cache |-> saved.cache, index |-> saved.index,
                 result |-> Ok([original_resource_uri |-> uri,
                                adjusted_resource_uri |-> adjusted_uri,
                                status |-> "success"])]

\* upload_csv(csv_text): parsed is what pd.read_csv made of the text; uuid1 and
\* uuid2 are the fresh identifiers of the raw and of the adjusted resource.
upload_csv(cache, index, parsed, uuid1, uuid2) ==
    IF parsed.status # "ok"
    THEN [df |-> <<>>, cache |-> cache, index |-> index, result |-> Raise("ValueError")]
    ELSE
    LET table == parsed.vals
        resource_id == generate_resource_id(uuid1, "raw_data", NoId, "")
        uri == get_resource_uri(resource_id)
        cache1 == Put(cache, uri, table)
        index1 == Put(index, resource_id, uri)
        numeric_analysis == numeric_columns(table)
        detected == auto_detect_polarity(table, numeric_analysis)
    IN  IF numeric_analysis = {}
        THEN [df |-> table, cache |-> cache1, index |-> index1,
              result |-> Ok([original_resource_uri |-> uri,
                             adjusted_resource_uri |-> NoUri, status |-> "skipped"])]
        ELSE IF detected.status # "ok"
        THEN [df |-> table, cache |-> cache1, index |-> index1,
              result |-> Raise("ValueError")]
        ELSE IF \E col \in DOMAIN detected.vals : ~detected.vals[col].detection_successful
        THEN [df |-> table, cache |-> cache1, index |-> index1,
              result |-> Ok([original_resource_uri |-> uri,
                             adjusted_resource_uri |-> NoUri,
                             status |-> "requires_confirmation"])]
        ELSE
        LET call == apply_polarity_adjustment(table, detected.vals)
            adjusted_resource_id ==
                generate_resource_id(uuid2, "raw_data", resource_id, "polarity_adjusted")
            adjusted_uri == get_resource_uri(adjusted_resource_id)
        IN  IF call.result.status # "ok"
            THEN [df |-> call.df, cache |-> Put(cache1, uri, call.df), index |-> index1,
                  result |-> Raise("ValueError")]
            ELSE [df |-> call.df,
                  cache |-> Put(Put(cache1, uri, call.df), adjusted_uri, call.result.vals),
                  index |-> Put(index1, adjusted_resource_id, adjusted_uri),
                  result |-> Ok([original_resource_uri |-> uri,
                                 adjusted_resource_uri |-> adjusted_uri,
                                 status |-> "success"])]

(***************************************************************************)
(* The inputs of the polarity calls.                                       *)
(***************************************************************************)
ColumnNames == {"score", "cost", "misc"}
CellValues == {Whole(-1), Zero, Whole(2)}
Columns ==
    {[r \in 1..MaxRows |-> Number(cells[r])] : cells \in [1..MaxRows -> CellValues]}
    \cup {[r \in 1..MaxRows |-> Text]}
ColumnSets == {names \in SUBSET ColumnNames : Cardinality(names) \in 1..2}
Tables == UNION {[names -> Columns] : names \in ColumnSets}

DetectionResults ==
    {[suggested_polarity |-> "max", detection_successful |-> TRUE],
     [suggested_polarity |-> "min", detection_successful |-> TRUE],
     [suggested_polarity |-> "max", detection_successful |-> FALSE]}
PolarityResults == UNION {[names -> DetectionResults] : names \in SUBSET ColumnNames}
PolarityConfigs == UNION {[names -> {"max", "min"}] : names \in SUBSET ColumnNames}

\* The raw resource of the upload, a resource never stored, and a URI without
\* the scheme.
UriArguments(uploaded) ==
    {uploaded,
     get_resource_uri(generate_resource_id(9, "raw_data", NoId, "")),
     [scheme |-> "", id |-> uploaded.id]}

PolarityInit ==
    /\ pc = "start"
    /\ df \in Tables
    /\ polarity_results = <<>>
    /\ adjusted_df = NotCalled
    /\ DATA_CACHE = <<>>
    /\ RESOURCE_INDEX = <<>>
    /\ upload_result = NotCalled
    /\ original_resource_uri = NoUri
    /\ polarity_config = <<>>
    /\ tool_result = NotCalled
    /\ WorkflowIdle
    /\ GradeIdle
    /\ normalized_matrices = <<>>
    /\ weights = [given |-> FALSE, vals |-> <<>>]
    /\ v = Rat(1, 2)
    /\ v_given = FALSE
    /\ comprehensive_membership = NotCalled
    /\ comprehensive_scores = NotCalled
    /\ membership_scores = NotCalled
    /\ vikor_scores = NotCalled
    /\ q_values = NotCalled
    /\ x = [kind |-> "scalar", dtype |-> "float", vals |-> <<Zero>>]
    /\ level_params = <<>>
    /\ level_index = 0
    /\ total_levels = 0
    /\ membership = NotCalled

\* A direct call apply_polarity_adjustment(df, polarity_results).
ApplyPolarityAdjustment ==
    /\ pc = "start"
    /\ \E results \in PolarityResults :
        LET call == apply_polarity_adjustment(df, results)
        IN  /\ polarity_results' = results
            /\ df' = call.df
            /\ adjusted_df' = call.result
    /\ pc' = "function_done"
    /\ UNCHANGED <<DATA_CACHE, RESOURCE_INDEX, upload_result, original_resource_uri,
                   polarity_config, tool_result>>
    /\ UNCHANGED <<membershipVars, aggregationVars, gradeVars, workflowVars>>

\* The tool upload_csv, on the CSV text of df or on a text pandas cannot parse.
UploadCsv ==
    /\ pc = "start"
    /\ \E parsed \in {Ok(df), Raise("EmptyDataError")} :
        LET call == upload_csv(DATA_CACHE, RESOURCE_INDEX, parsed, 1, 2)
        IN  /\ DATA_CACHE' = call.cache
            /\ RESOURCE_INDEX' = call.index
            /\ upload_result' = call.result
            /\ df' = IF parsed.status = "ok" THEN call.df ELSE df
            /\ pc' = IF call.result.status = "ok" THEN "uploaded" ELSE "upload_failed"
    /\ UNCHANGED <<polarity_results, adjusted_df, original_resource_uri,
                   polarity_config, tool_result>>
    /\ UNCHANGED <<membershipVars, aggregationVars, gradeVars, workflowVars>>

\* The tool apply_polarity_adjustment_tool, after an upload, on the URIs and
\* the configurations given.
PolarityAdjustmentToolOn(uris, configs) ==
    /\ pc = "uploaded"
    /\ \E uri \in uris, config \in configs :
        LET call == apply_polarity_adjustment_tool(DATA_CACHE, RESOURCE_INDEX,
                                                   uri, config, 3)
        IN  /\ original_resource_uri' = uri
            /\ polarity_config' = config
            /\ DATA_CACHE' = call.cache
            /\ RESOURCE_INDEX' = call.index
            /\ tool_result' = call.result
            /\ pc' = IF call.result.status = "ok" THEN "tool_done" ELSE "tool_failed"
    /\ UNCHANGED <<df, polarity_results, adjusted_df, upload_result>>
    /\ UNCHANGED <<membershipVars, aggregationVars, gradeVars, workflowVars>>

PolarityAdjustmentTool ==
    PolarityAdjustmentToolOn(UriArguments(upload_result.vals.original_resource_uri),
                             PolarityConfigs)

PolarityNext ==
    \/ ApplyPolarityAdjustment
    \/ UploadCsv
    \/ PolarityAdjustmentTool

PolaritySpec == PolarityInit /\ [][PolarityNext]_vars

(***************************************************************************)
(* Claims on polarity adjustment and on the cache.                         *)
(***************************************************************************)
SameDict(before, after) ==
    /\ DOMAIN after = DOMAIN before
    /\ \A key \in DOMAIN before : after[key] = before[key]

\* Every column of old but the ones labelled 'max' stands unchanged in new.
OtherColumnsKept(old, new, labelled_max) ==
    /\ DOMAIN new = DOMAIN old
    /\ \A col \in DOMAIN old : col \notin labelled_max => new[col] = old[col]

LabelledMaxInResults(results) ==
    {col \in DOMAIN results : results[col].suggested_polarity = "max"}
LabelledMaxInConfig(config) == {col \in DOMAIN config : config[col] = "max"}

\* C17: polarity adjustment returns a table whose columns not labelled 'max'
\* are the input's columns, and leaves the input table as it was: the caller's
\* table after apply_polarity_adjustment (called directly or by upload_csv), and
\* every table of the cache after apply_polarity_adjustment_tool.
C17_InputKeptAndOtherColumnsPassThrough ==
    [][/\ ApplyPolarityAdjustment =>
            /\ df' = df
            /\ adjusted_df'.status = "ok" =>
                   OtherColumnsKept(df, adjusted_df'.vals,
                                    LabelledMaxInResults(polarity_results'))
       /\ UploadCsv /\ upload_result'.status = "ok" =>
            /\ df' = df
            /\ DATA_CACHE'[upload_result'.vals.original_resource_uri] = df
            /\ upload_result'.vals.status = "success" =>
                   OtherColumnsKept(df,
                                    DATA_CACHE'[upload_result'.vals.adjusted_resource_uri],
                                    {col \in DOMAIN df : name_polarity(col) = "max"})
       /\ PolarityAdjustmentTool =>
            /\ \A uri \in DOMAIN DATA_CACHE :
                   uri \in DOMAIN DATA_CACHE' /\ DATA_CACHE'[uri] = DATA_CACHE[uri]
            /\ tool_result'.status = "ok" =>
                   OtherColumnsKept(DATA_CACHE[original_resource_uri'],
                                    DATA_CACHE'[tool_result'.vals.adjusted_resource_uri],
                                    LabelledMaxInConfig(polarity_config'))
      ]_vars

\* The upload adjusted a 'max' column with the function and kept a 'min' column,
\* and the tool then adjusted a column of the raw table and kept another.
C17_Witness ==
    /\ pc = "tool_done"
    /\ upload_result.vals.status = "success"
    /\ DOMAIN df = {"score", "cost"}
    /\ DATA_CACHE[upload_result.vals.adjusted_resource_uri] # df
    /\ DATA_CACHE[upload_result.vals.adjusted_resource_uri]["cost"] = df["cost"]
    /\ original_resource_uri = upload_result.vals.original_resource_uri
    /\ LabelledMaxInConfig(polarity_config) = {"cost"}
    /\ DATA_CACHE[tool_result.vals.adjusted_resource_uri]["cost"] # df["cost"]
    /\ DATA_CACHE[tool_result.vals.adjusted_resource_uri]["score"] = df["score"]
    /\ DATA_CACHE[original_resource_uri] = df

\* The rows of a column that hold a smaller value in old get a larger one in new.
Decreasing(old, new) ==
    \A r1, r2 \in DOMAIN old : CellLt(old[r1], old[r2]) => CellLt(new[r2], new[r1])

InverseTransformDecreasing ==
    (pc = "function_done" /\ adjusted_df.status = "ok") =>
        \A col \in max_columns(polarity_results) :
            Decreasing(df[col], adjusted_df.vals[col])

\* The linear reflection of the tool is decreasing on every column it adjusts.
LinearReflectionDecreasing ==
    pc = "tool_done" =>
        \A col \in LabelledMaxInConfig(polarity_config) :
            Decreasing(DATA_CACHE[original_resource_uri][col],
                       DATA_CACHE[tool_result.vals.adjusted_resource_uri][col])

\* C18: the transformation of a larger-is-better column is decreasing: of two
\* values x1 < x2 of the column, of any sign, the adjusted ones satisfy
\* adj(x1) > adj(x2), under the inverse transform of apply_polarity_adjustment and
\* under the linear reflection of apply_polarity_adjustment_tool.
C18_AdjustmentMonotonicallyDecreasing ==
    InverseTransformDecreasing /\ LinearReflectionDecreasing

\* The configuration names a column the table lacks or a column holding text.
NamesBadColumn(table, config) ==
    \E col \in DOMAIN config :
        \/ col \notin DOMAIN table
        \/ \E r \in DOMAIN table[col] : table[col][r].kind = "text"

\* C19: apply_polarity_adjustment_tool raises when the polarity configuration
\* names a column that is absent or not numeric, and the call then leaves
\* DATA_CACHE and RESOURCE_INDEX as they were: no adjusted resource is added.
C19_BadColumnRaisesAndAddsNothing ==
    [][(/\ PolarityAdjustmentTool
        /\ original_resource_uri' \in DOMAIN DATA_CACHE
        /\ NamesBadColumn(DATA_CACHE[original_resource_uri'], polarity_config')) =>
            /\ tool_result'.status = "ValueError"
            /\ SameDict(DATA_CACHE, DATA_CACHE')
            /\ SameDict(RESOURCE_INDEX, RESOURCE_INDEX')
      ]_vars

\* The tool was handed a cached table and a configuration naming a text column
\* and an absent one beside a numeric one.
C19_Witness ==
    /\ pc = "tool_failed"
    /\ original_resource_uri \in DOMAIN DATA_CACHE
    /\ \E col \in DOMAIN polarity_config : col \notin DOMAIN df
    /\ \E col \in DOMAIN polarity_config \cap DOMAIN df : ~is_numeric(df[col])
    /\ \E col \in DOMAIN polarity_config \cap DOMAIN df : is_numeric(df[col])
    /\ tool_result.status = "ValueError"

\* C20: a tool operation that ends with an error leaves DATA_CACHE and
\* RESOURCE_INDEX holding exactly the entries they held before the call.
C20_NoPartialResultOnFailure ==
    [][(\/ UploadCsv /\ upload_result'.status # "ok"
        \/ PolarityAdjustmentTool /\ tool_result'.status # "ok") =>
            /\ SameDict(DATA_CACHE, DATA_CACHE')
            /\ SameDict(RESOURCE_INDEX, RESOURCE_INDEX')
      ]_vars

\* apply_polarity_adjustment_tool alone keeps the cache on failure.
ToolFailureAddsNothing ==
    [][(PolarityAdjustmentTool /\ tool_result'.status # "ok") =>
            /\ SameDict(DATA_CACHE, DATA_CACHE')
            /\ SameDict(RESOURCE_INDEX, RESOURCE_INDEX')
      ]_vars

(***************************************************************************)
(* The scalar path on threshold lists in any order.                        *)
(***************************************************************************)
\* Threshold lists of any order: equal neighbours, zero and negative values.
AnyThresholdLists ==
    LET raw == UNION {[1..n -> (-MaxThreshold)..MaxThreshold] : n \in 1..MaxLevels}
    IN  {[i \in 1..Len(s) |-> Whole(s[i])] : s \in raw}

\* A call with a scalar x, a list of total_levels thresholds and a valid index.
ScalarInit ==
    /\ pc = "call"
    /\ TableIdle
    /\ WorkflowIdle
    /\ level_params \in AnyThresholdLists
    /\ total_levels = Len(level_params)
    /\ level_index \in 1..total_levels
    /\ x \in ScalarInputs
    /\ membership = NotCalled
    /\ normalized_matrices = <<>>
    /\ weights = [given |-> FALSE, vals |-> <<>>]
    /\ v = Rat(1, 2)
    /\ v_given = FALSE
    /\ comprehensive_membership = NotCalled
    /\ comprehensive_scores = NotCalled
    /\ membership_scores = NotCalled
    /\ vikor_scores = NotCalled
    /\ q_values = NotCalled
    /\ GradeIdle

ScalarSpec == ScalarInit /\ [][MembershipNext]_vars

\* C30: the scalar path of lower_bound_level_membership never divides by zero:
\* for every scalar x, every list of total_levels thresholds (equal neighbours,
\* zero and negative values, a single level) and every valid level index the
\* call returns a number and raises nothing.
C30_ScalarPathReturnsNumber ==
    (pc = "done" /\ x.kind = "scalar") =>
        /\ membership.status = "ok"
        /\ membership.vals[1] # DivisionByZero
        /\ membership.vals[1][2] > 0

\* A middle level between equal zero thresholds, asked at x = 0.
C30_Witness ==
    /\ pc = "done"
    /\ x.vals[1] = Zero
    /\ total_levels = 3
    /\ level_index = 2
    /\ level_params[1] = Zero /\ level_params[2] = Zero /\ level_params[3] = Zero
    /\ membership.status = "ok"

(***************************************************************************)
(* Aggregation over objects whose matrices differ in their number of       *)
(* levels.                                                                 *)
(***************************************************************************)
\* Two objects, each with 1 .. MaxAggLevels levels of its own.
MixedMatricesOver(cols) ==
    LET build(cs) ==
            [o \in 1..Len(cs) |->
                [f \in 1..NumFactors |-> [k \in 1..Len(cs[o]) |-> cs[o][k][f]]]]
        columns_of_object == UNION {[1..l -> cols] : l \in 1..MaxAggLevels}
    IN  {build(cs) : cs \in [1..2 -> columns_of_object]}

\* Equal weights, left out or passed.
EqualWeights == {NoWeights, [given |-> TRUE, vals |-> default_weights(NumFactors)]}

MixedInit ==
    /\ pc = "start"
    /\ TableIdle
    /\ WorkflowIdle
    /\ weights \in EqualWeights
    /\ normalized_matrices \in MixedMatricesOver(RationalColumns(WeightsUsed(weights)))
    /\ v = Rat(1, 2)
    /\ v_given = FALSE
    /\ comprehensive_membership = NotCalled
    /\ comprehensive_scores = NotCalled
    /\ membership_scores = NotCalled
    /\ vikor_scores = NotCalled
    /\ q_values = NotCalled
    /\ GradeIdle
    /\ x = ScalarOf(Zero)
    /\ level_params = <<>>
    /\ level_index = 0
    /\ total_levels = 0
    /\ membership = NotCalled

MixedSpec == MixedInit /\ [][AggregationNext]_vars

\* What a run returned for object o: its entry of the result, or the exception.
ObjectResult(run, o) == IF run.status = "ok" THEN Ok(run.vals[o]) ELSE Raise(run.status)

\* C21: the result of TOPSIS and of VIKOR for an object depends on that
\* object's matrix and on the weights (and v) alone: it is the result of the run
\* made on that object without the others, whatever the others' shapes.
C21_ObjectIndependence ==
    /\ comprehensive_membership.status # "none" =>
            \A o \in 1..Len(normalized_matrices) :
                ObjectResult(comprehensive_membership, o) =
                    ObjectResult(calculate_comprehensive_membership(
                                     <<normalized_matrices[o]>>, weights), 1)
    /\ vikor_scores.status # "none" =>
            \A o \in 1..Len(normalized_matrices) :
                ObjectResult(vikor_scores, o) =
                    ObjectResult(calculate_comprehensive_scores(
                                     <<normalized_matrices[o]>>, weights, v), 1)

(***************************************************************************)
(* The uniform vector of the grade report's template.                      *)
(***************************************************************************)
UniformVector == <<Rat(1, 4), Rat(1, 4), Rat(1, 4), Rat(1, 4)>>
UniformObjects == {o \in GradedObjects : membership_scores.vals[o] = UniformVector}

TextOf(s) == [kind |-> "text", val |-> s]

\* list(DATA_CACHE.keys()): the keys in the order they were inserted.  A URI
\* is inserted once, with a uuid drawn later than those of the URIs before it.
cache_keys(cache) ==
    LET keys == DOMAIN cache
    IN  [i \in 1..Cardinality(keys) |->
            CHOOSE k \in keys :
                Cardinality({j \in keys : j.id.unique_id < k.id.unique_id}) = i - 1]

\* parse_resource_id(resource_id): the type named by the code, and parts[2]
\* when the id has a parent hash.
parse_resource_id(resource_id) ==
    [type |-> IF \E t \in DOMAIN RESOURCE_TYPES : RESOURCE_TYPES[t] = resource_id.type_code
              THEN CHOOSE t \in DOMAIN RESOURCE_TYPES :
                        RESOURCE_TYPES[t] = resource_id.type_code
              ELSE "unknown",
     has_parent_hash |-> resource_id.parent_hash # 0,
     parent_hash |-> resource_id.parent_hash]

\* The lengths of the texts an id is made of.
uuid_length == 8        \* str(uuid.uuid4())[:8]
hash_length == 6        \* hexdigest()[:6]
id_length(resource_id) ==
    Len(resource_id.type_code) + 1 + uuid_length
    + (IF resource_id.parent_hash # 0 THEN 1 + hash_length ELSE 0)
    + (IF resource_id.step # "" THEN 1 + Len(resource_id.step) ELSE 0)

\* "polarity_adjusted" in cached_uri.  The text has letters that are no
\* hexadecimal digits, so it can only lie in the type code or in the step.
contains_polarity_adjusted(uri) ==
    "polarity_adjusted" \in {uri.id.type_code, uri.id.step}

\* adjusted_parsed.get("parent_hash") == resource_id: the hash_length
\* characters of the hash against the whole text of the id.
parent_hash_is(parsed, resource_id) ==
    /\ parsed.has_parent_hash
    /\ hash_length = id_length(resource_id)
    /\ parsed.parent_hash = resource_id.unique_id

\* The loop over DATA_CACHE.keys() that opens generate_membership_config_template
\* and calculate_membership_with_config: the first polarity-adjusted resource
\* of resource_id, or NoId.
polarity_adjusted_resource_id(cache, resource_id) ==
    LET keys == cache_keys(cache)
        found == {i \in 1..Len(keys) :
                    /\ keys[i].scheme = "data://"
                    /\ contains_polarity_adjusted(keys[i])
                    /\ parse_resource_id(keys[i].id).type = "raw_data"
                    /\ parent_hash_is(parse_resource_id(keys[i].id), resource_id)}
    IN  IF found = {} THEN NoId
        ELSE keys[CHOOSE i \in found : \A j \in found : i <= j].id

\* used_resource_id: the adjusted resource when one was found.
prefer_adjusted(adjusted, resource_id) == IF adjusted # NoId THEN adjusted ELSE resource_id
used_resource_id(cache, resource_id) ==
    prefer_adjusted(polarity_adjusted_resource_id(cache, resource_id), resource_id)

\* validate_membership_config(resource_id, config): the errors and the
\* warnings, each named by its cause.
validate_membership_config(cache, resource_id, config) ==
    IF get_resource_uri(resource_id) \notin DOMAIN cache THEN Raise("ValueError")
    ELSE
    LET numeric_fields == numeric_columns(cache[get_resource_uri(resource_id)])
        checked == {i \in 1..Len(config) : config[i][1] \in numeric_fields}
        level_counts == {Len(config[i][2]) : i \in checked}
        errors ==
            {"field_not_in_data" : i \in (1..Len(config)) \ checked}
            \cup {"fewer_than_2_params" : i \in {j \in checked : Len(config[j][2]) < 2}}
            \cup {"not_decreasing" :
                    i \in {j \in checked :
                            \E k \in 1..(Len(config[j][2]) - 1) :
                                RLe(config[j][2][k], config[j][2][k + 1])}}
        warnings ==
            {"level_counts_differ" : i \in {j \in checked : Cardinality(level_counts) > 1}}
            \cup {"field_not_configured" :
                    f \in numeric_fields \ {config[i][1] : i \in 1..Len(config)}}
    IN  Ok([is_valid |-> errors = {}, errors |-> errors, warnings |-> warnings])

\* round(float(membership), 4)
round_4(q) == Rat(round(RMul(q, Whole(10000))), 10000)

\* pd.DataFrame(records): a column for every key of the records, no column
\* for no record.
DataFrame(records) ==
    IF records = <<>> THEN <<>>
    ELSE [col \in DOMAIN records[1] |-> [r \in 1..Len(records) |-> records[r][col]]]

\* len(df)
NumRows(table) ==
    IF DOMAIN table = {} THEN 0 ELSE Len(table[CHOOSE col \in DOMAIN table : TRUE])

\* The concatenation of the sequences of a sequence.
RECURSIVE Flatten(_)
Flatten(seqs) == IF seqs = <<>> THEN <<>> ELSE Head(seqs) \o Flatten(Tail(seqs))

\* What a loop over calls gives: the exception of the first call that raises,
\* or the values of all the calls, one after the other.
first_raised(results) ==
    results[CHOOSE i \in 1..Len(results) :
                /\ results[i].status # "ok"
                /\ \A j \in 1..(i - 1) : results[j].status = "ok"]
collect(results) ==
    IF \E i \in 1..Len(results) : results[i].status # "ok"
    THEN Raise(first_raised(results).status)
    ELSE Ok(Flatten([i \in 1..Len(results) |-> results[i].vals]))

\* round(float(membership), 4) of every level of one cell.
rounded(memberships) ==
    IF memberships.status # "ok" THEN memberships
    ELSE Ok([level \in 1..Len(memberships.vals) |-> round_4(memberships.vals[level])])

\* The memberships of one cell at every level of its field, or the exception
\* of the first level that raises.
cell_memberships(value, params) ==
    rounded(collect([level \in 1..Len(params) |->
                lower_bound_level_membership(ScalarOf(value), params, level, Len(params))]))

\* The records of one cell in the flat table, one for every level.
cell_records(r, field, memberships) ==
    IF memberships.status # "ok" THEN memberships
    ELSE Ok([level \in 1..Len(memberships.vals) |->
                [object |-> TextOf(r),
                 factor |-> TextOf(field),
                 level |-> TextOf(level),
                 membership |-> Number(memberships.vals[level])]])

\* flattened_results: for every row, for every field of the configuration in
\* its order, one record for every level; or the exception of the first call
\* of lower_bound_level_membership that raises.
flattened_results(table, config) ==
    collect(Flatten([r \in 1..NumRows(table) |->
        [i \in 1..Len(config) |->
            IF config[i][1] \in DOMAIN table
            THEN cell_records(r, config[i][1],
                              cell_memberships(table[config[i][1]][r].val, config[i][2]))
            ELSE Ok(<<>>)]]))

\* The end of calculate_membership_with_config: the exception of a failed
\* validation or calculation, or the result cached under a fresh id.
membership_outcome(cache, index, resource_id, used, validation_result, flattened, uuid) ==
    IF validation_result.status # "ok"
    THEN [cache |-> cache, index |-> index, result |-> Raise(validation_result.status)]
    ELSE IF ~validation_result.vals.is_valid
    THEN [cache |-> cache, index |-> index, result |-> Raise("ValueError")]
    ELSE IF flattened.status # "ok"
    THEN [cache |-> cache, index |-> index, result |-> Raise(flattened.status)]
    ELSE
    LET result_resource_id ==
            generate_resource_id(uuid, "membership_calc", resource_id,
                                 "membership_calculation")
        result_uri == get_resource_uri(result_resource_id)
    IN  [cache |-> Put(cache, result_uri, DataFrame(flattened.vals)),
         index |-> Put(index, result_resource_id, result_uri),
         result |-> Ok([original_resource_uri |-> get_resource_uri(resource_id),
                        result_resource_id |-> result_resource_id,
                        used_resource_id |-> used,
                        membership_matrix |-> flattened.vals,
                        validation_warnings |-> validation_result.vals.warnings])]

\* The call once used_resource_id is known: the validation, then the
\* memberships of the table of that resource.
membership_of_used(cache, index, resource_id, config, uuid, used) ==
    membership_outcome(cache, index, resource_id, used,
                       validate_membership_config(cache, used, config),
                       flattened_results(cache[get_resource_uri(used)], config), uuid)

\* calculate_membership_with_config(resource_id, config): the cache and the
\* index after the call, and what the call returned.  uuid is the fresh
\* identifier of the result; used_resource_id is the resource the call read.
calculate_membership_with_config(cache, index, resource_id, config, uuid) ==
    membership_of_used(cache, index, resource_id, config, uuid,
                       used_resource_id(cache, resource_id))

\* _is_membership_matrix(df): a table with rows that has the four columns of
\* the flat format.
required_columns == {"object", "factor", "level", "membership"}
is_membership_matrix(table) ==
    NumRows(table) > 0 /\ required_columns \subseteq DOMAIN table

None == [status |-> "None", vals |-> <<>>]

\* find_latest_membership_resource(): mc_resources[0], the first URI of the
\* cache that begins with data://mc_ and holds a membership matrix.
find_latest_membership_resource(cache) ==
    LET keys == cache_keys(cache)
        mc_resources == SelectSeq(keys,
                            LAMBDA uri : /\ uri.scheme = "data://"
                                         /\ uri.id.type_code = "mc"
                                         /\ is_membership_matrix(cache[uri]))
    IN  IF mc_resources = <<>> THEN None ELSE Ok(mc_resources[1].id)

\* clear_data_cache(): DATA_CACHE.clear()
clear_data_cache(cache, index) == [cache |-> <<>>, index |-> index]

\* A dict without the key k.
Del(d, k) == [key \in DOMAIN d \ {k} |-> d[key]]

\* delete_persistent_resource(resource_id)
delete_persistent_resource(cache, index, resource_id) ==
    IF resource_id \notin DOMAIN index
    THEN [cache |-> cache, index |-> index, success |-> FALSE]
    ELSE [cache |-> Del(cache, index[resource_id]),
          index |-> Del(index, resource_id),
          success |-> TRUE]

\* _is_topsis_result(df)
topsis_columns == {"object", "level", "relative_closeness", "comprehensive_membership"}
is_topsis_result(table) ==
    NumRows(table) > 0 /\ topsis_columns \subseteq DOMAIN table

\* The elements of a set in increasing order of rank, rank a function on them.
SortedBy(S, rank) ==
    [i \in 1..Cardinality(S) |->
        CHOOSE e \in S : Cardinality({f \in S : rank[f] < rank[e]}) = i - 1]

\* The elements of a set of numbers in increasing order.
Sorted(S) == SortedBy(S, [e \in S |-> e])

\* The order of the column names as strings, which groupby sorts its keys by.
sorted_names == <<"cost", "misc", "score">>
name_rank(name) == CHOOSE i \in 1..Len(sorted_names) : sorted_names[i] = name

\* The rows of a table, as records.
Rows(table) == [r \in 1..NumRows(table) |-> [col \in DOMAIN table |-> table[col][r]]]

\* _convert_membership_to_normalized_matrix(membership_df): for every object in
\* the order of the names, the matrix whose rows are the factors in the order
\* of their names, a row holding the memberships in the order of the levels.
convert_membership_to_normalized_matrix(membership_df) ==
    LET rows == Rows(membership_df)
        object_names == Sorted({rows[r].object.val : r \in 1..Len(rows)})
        factors_of(obj) ==
            {rows[r].factor.val : r \in {k \in 1..Len(rows) : rows[k].object.val = obj}}
        factor_names(obj) ==
            SortedBy(factors_of(obj), [name \in factors_of(obj) |-> name_rank(name)])
        factor_group(obj, factor) ==
            {r \in 1..Len(rows) : rows[r].object.val = obj /\ rows[r].factor.val = factor}
        sort_values(group) ==
            [i \in 1..Cardinality(group) |->
                CHOOSE r \in group :
                    Cardinality({k \in group :
                        \/ rows[k].level.val < rows[r].level.val
                        \/ rows[k].level.val = rows[r].level.val /\ k < r}) = i - 1]
        matrix(obj) ==
            [f \in 1..Len(factor_names(obj)) |->
                LET sorted == sort_values(factor_group(obj, factor_names(obj)[f]))
                IN  [l \in 1..Len(sorted) |-> rows[sorted[l]].membership.val]]
    IN  [names |-> object_names,
         matrices |-> [o \in 1..Len(object_names) |-> matrix(object_names[o])]]

\* np.array(matrix) of rows of different lengths has no second dimension.
is_ragged(matrix) == \E f \in 1..Len(matrix) : Len(matrix[f]) # Len(matrix[1])

\* The sums under the square roots of the distances are squares of rationals.
exact_distances(matrices, weights_array) ==
    \A o \in 1..Len(matrices) : \A l \in 1..Len(matrices[o][1]) :
        LET col == level_memberships(matrices[o], l)
        IN  /\ IsSquare(RSum([f \in 1..Len(weights_array) |->
                                RMul(weights_array[f], Square(RSub(col[f], One)))]))
            /\ IsSquare(RSum([f \in 1..Len(weights_array) |->
                                RMul(weights_array[f], Square(col[f]))]))

\* The resource an evaluation reads: requested is the resource_id argument,
\* None or an id, and found what the search of the latest resource gives.
has_format(table, format) ==
    IF format = "membership_matrix" THEN is_membership_matrix(table)
    ELSE is_topsis_result(table)
checked_resource(cache, resolved, format) ==
    IF resolved.status = "None" THEN Raise("ValueError")
    ELSE IF get_resource_uri(resolved.vals) \notin DOMAIN cache THEN Raise("ValueError")
    ELSE IF ~has_format(cache[get_resource_uri(resolved.vals)], format) THEN Raise("ValueError")
    ELSE resolved
resolve_resource(cache, requested, found, format) ==
    checked_resource(cache, IF requested.status = "None" THEN found ELSE requested,
                     format)

\* A call that raises exc after it rebuilt the matrices: nothing is stored.
evaluation_failed(cache, index, matrices, exc) ==
    [cache |-> cache, index |-> index, normalized_matrices |-> matrices,
     result |-> Raise(exc)]

\* result_data of the TOPSIS tool: a record for every object and level.
topsis_result_data(names, distances, scores, u_scores) ==
    Flatten([o \in 1..Len(names) |->
        [l \in 1..Len(u_scores[o]) |->
            [object |-> TextOf(names[o]),
             level |-> TextOf(l),
             comprehensive_membership |-> Number(u_scores[o][l]),
             relative_closeness |-> Number(scores[o][l]),
             distance_positive |-> Number(distances[o].d_positive[l]),
             distance_negative |-> Number(distances[o].d_negative[l])]]])

\* The end of the TOPSIS tool: the result is cached and indexed under a fresh
\* id when cache_result is set; the report then formats result_resource_id,
\* which is bound only if the result was cached.
topsis_report(cache, index, resource_id, matrices, result_data, u_scores, caching, uuid) ==
    IF ~caching THEN evaluation_failed(cache, index, matrices, "UnboundLocalError")
    ELSE
    LET result_resource_id ==
            generate_resource_id(uuid, "multi_criteria", resource_id, "topsis_evaluation")
        result_uri == get_resource_uri(result_resource_id)
    IN  [cache |-> Put(cache, result_uri, DataFrame(result_data)),
         index |-> Put(index, result_resource_id, result_uri),
         normalized_matrices |-> matrices,
         result |-> Ok([resource_id |-> resource_id,
                        membership_scores |-> u_scores,
                        result_resource_id |-> result_resource_id])]

\* The three steps of the TOPSIS tool on the rebuilt matrices: the distances,
\* the relative closeness, the comprehensive membership.
topsis_membership_scores(cache, index, resource_id, converted, distances, scores, u_scores, caching, uuid) ==
    topsis_report(cache, index, resource_id, converted.matrices,
                  topsis_result_data(converted.names, distances.vals, scores.vals,
                                     u_scores.vals),
                  u_scores.vals, caching, uuid)
topsis_scores(cache, index, resource_id, converted, distances, scores, caching, uuid) ==
    topsis_membership_scores(cache, index, resource_id, converted, distances, scores,
                             calculate_comprehensive_membership_scores(scores),
                             caching, uuid)
topsis_distances_of(cache, index, resource_id, converted, distances, caching, uuid) ==
    IF \E o \in 1..Len(converted.matrices) : is_ragged(converted.matrices[o])
    THEN evaluation_failed(cache, index, converted.matrices, "ValueError")
    ELSE IF distances.status # "ok"
    THEN evaluation_failed(cache, index, converted.matrices, distances.status)
    ELSE topsis_scores(cache, index, resource_id, converted, distances,
                       get_comprehensive_scores(distances), caching, uuid)
topsis_of_matrices(cache, index, resource_id, converted, w, caching, uuid) ==
    topsis_distances_of(cache, index, resource_id, converted,
                        calculate_comprehensive_membership(converted.matrices, w),
                        caching, uuid)

\* The TOPSIS tool once the resource is resolved.
topsis_of_resource(cache, index, resolved, w, caching, uuid) ==
    IF resolved.status # "ok" THEN evaluation_failed(cache, index, <<>>, resolved.status)
    ELSE topsis_of_matrices(cache, index, resolved.vals,
                            convert_membership_to_normalized_matrix(
                                cache[get_resource_uri(resolved.vals)]),
                            w, caching, uuid)

\* perform_topsis_comprehensive_evaluation(resource_id, weights, cache_result):
\* the cache and the index after the call, the matrices rebuilt from the
\* membership resource, and what the call returned.
perform_topsis_comprehensive_evaluation(cache, index, requested, w, caching, uuid) ==
    topsis_of_resource(cache, index,
                       resolve_resource(cache, requested,
                                        find_latest_membership_resource(cache),
                                        "membership_matrix"),
                       w, caching, uuid)

\* result_data of the VIKOR tool.
vikor_result_data(names, scores) ==
    Flatten([o \in 1..Len(names) |->
        [l \in 1..Len(scores[o].S) |->
            [object |-> TextOf(names[o]),
             level |-> TextOf(l),
             S |-> Number(scores[o].S[l]),
             R |-> Number(scores[o].R[l]),
             Q |-> Number(scores[o].Q[l])]]])

\* The end of the VIKOR tool: the result is cached, without an entry in the
\* index, when cache_result is set; the report formats result_resource_id.
vikor_report(cache, index, resource_id, converted, scores, caching, uuid) ==
    IF \E o \in 1..Len(converted.matrices) : is_ragged(converted.matrices[o])
    THEN evaluation_failed(cache, index, converted.matrices, "ValueError")
    ELSE IF scores.status # "ok"
    THEN evaluation_failed(cache, index, converted.matrices, scores.status)
    ELSE IF ~caching
    THEN evaluation_failed(cache, index, converted.matrices, "UnboundLocalError")
    ELSE
    LET result_resource_id ==
            generate_resource_id(uuid, "multi_criteria", resource_id, "vikor_evaluation")
    IN  [cache |-> Put(cache, get_resource_uri(result_resource_id),
                       DataFrame(vikor_result_data(converted.names, scores.vals))),
         index |-> index,
         normalized_matrices |-> converted.matrices,
         result |-> Ok([resource_id |-> resource_id,
                        comprehensive_scores |-> scores.vals,
                        result_resource_id |-> result_resource_id])]

vikor_of_matrices(cache, index, resource_id, converted, w, vv, caching, uuid) ==
    vikor_report(cache, index, resource_id, converted,
                 calculate_comprehensive_scores(converted.matrices, w, vv), caching, uuid)

\* The VIKOR tool once the resource is resolved.
vikor_of_resource(cache, index, resolved, w, vv, caching, uuid) ==
    IF resolved.status # "ok" THEN evaluation_failed(cache, index, <<>>, resolved.status)
    ELSE vikor_of_matrices(cache, index, resolved.vals,
                           convert_membership_to_normalized_matrix(
                               cache[get_resource_uri(resolved.vals)]),
                           w, vv, caching, uuid)

\* perform_vikor_comprehensive_evaluation(resource_id, weights, v, cache_result)
perform_vikor_comprehensive_evaluation(cache, index, requested, w, vv, caching, uuid) ==
    vikor_of_resource(cache, index,
                      resolve_resource(cache, requested, None, "membership_matrix"),
                      w, vv, caching, uuid)

\* list(RESOURCE_INDEX.keys()), in the order of insertion.
index_keys(index) == SortedBy(DOMAIN index, [id \in DOMAIN index |-> id.unique_id])

\* find_latest_topsis_resource(): topsis_resources[-1], the last id of the
\* index that begins with mcr_ and holds the text topsiseval.
find_latest_topsis_resource(index) ==
    LET topsis_resources == SelectSeq(index_keys(index),
                                LAMBDA id : id.type_code = "mcr" /\ id.step = "topsiseval")
    IN  IF topsis_resources = <<>> THEN None
        ELSE Ok(topsis_resources[Len(topsis_resources)])

\* _extract_membership_scores_from_topsis(topsis_df, num_levels): the vector
\* of every object that has num_levels levels, in the order of the names.
extract_membership_scores_from_topsis(topsis_df, num_levels) ==
    LET rows == Rows(topsis_df)
        object_names == Sorted({rows[r].object.val : r \in 1..Len(rows)})
        group(obj) ==
            LET members == {r \in 1..Len(rows) : rows[r].object.val = obj}
            IN  [i \in 1..Cardinality(members) |->
                    CHOOSE r \in members :
                        Cardinality({k \in members :
                            \/ rows[k].level.val < rows[r].level.val
                            \/ rows[k].level.val = rows[r].level.val /\ k < r}) = i - 1]
        u_values(obj) ==
            [l \in 1..Len(group(obj)) |-> rows[group(obj)[l]].comprehensive_membership.val]
        v_values(obj) ==
            [l \in 1..Len(group(obj)) |-> rows[group(obj)[l]].relative_closeness.val]
        kept == SelectSeq(object_names,
                    LAMBDA obj : \/ Len(u_values(obj)) = num_levels
                                 \/ Len(v_values(obj)) = num_levels /\ RGt(RSum(v_values(obj)), Zero))
    IN  [names |-> kept,
         vectors |-> [o \in 1..Len(kept) |->
                        IF Len(u_values(kept[o])) = num_levels
                        THEN u_values(kept[o])
                        ELSE [l \in 1..num_levels |->
                                RDiv(v_values(kept[o])[l], RSum(v_values(kept[o])))]]]

\* GradeComprehensiveAssessment.assess_comprehensive_grade
grade_report(values, semantic, report) ==
    IF report.status # "ok" THEN Raise(report.status)
    ELSE Ok([level_characteristic_values |-> values.vals,
             binary_semantic_results |-> semantic.vals])
grade_semantic(scores, values, num_levels) ==
    grade_report(values, perform_binary_semantic_assessment(values, num_levels),
                 generate_comprehensive_assessment_report(scores))
assess_comprehensive_grade(scores, num_levels) ==
    grade_semantic(scores, calculate_level_characteristic_values(scores), num_levels)

\* result_data of the grade tool: a record for every object.
grade_result_data(scores, assessed) ==
    [o \in 1..Len(scores.names) |->
        [object |-> TextOf(scores.names[o]),
         membership_vector |-> TextOf(scores.vectors[o]),
         characteristic_value |-> Number(assessed.level_characteristic_values[o]),
         k |-> Number(Whole(assessed.binary_semantic_results[o][1])),
         alpha |-> Number(assessed.binary_semantic_results[o][2]),
         final_grade |-> TextOf(assessed.binary_semantic_results[o][1])]]

\* The end of the grade tool: the result is cached and indexed under a fresh
\* id when cache_result is set; the report formats result_resource_id.
grade_tool_report(cache, index, resource_id, scores, assessed, caching, uuid) ==
    IF assessed.status # "ok"
    THEN [cache |-> cache, index |-> index, result |-> Raise(assessed.status)]
    ELSE IF ~caching
    THEN [cache |-> cache, index |-> index, result |-> Raise("UnboundLocalError")]
    ELSE
    LET result_resource_id ==
            generate_resource_id(uuid, "binary_semantic", resource_id, "grade_assessment")
        result_uri == get_resource_uri(result_resource_id)
    IN  [cache |-> Put(cache, result_uri,
                       DataFrame(grade_result_data(scores, assessed.vals))),
         index |-> Put(index, result_resource_id, result_uri),
         result |-> Ok([resource_id |-> resource_id,
                        membership_scores |-> scores.vectors,
                        assessment_result |-> assessed.vals,
                        result_resource_id |-> result_resource_id])]

grade_of_scores(cache, index, resource_id, scores, num_levels, caching, uuid) ==
    grade_tool_report(cache, index, resource_id, scores,
                      assess_comprehensive_grade(Ok(scores.vectors), num_levels),
                      caching, uuid)

\* The grade tool once the resource is resolved.
grade_of_resource(cache, index, resolved, num_levels, caching, uuid) ==
    IF resolved.status # "ok"
    THEN [cache |-> cache, index |-> index, result |-> Raise(resolved.status)]
    ELSE grade_of_scores(cache, index, resolved.vals,
                         extract_membership_scores_from_topsis(
                             cache[get_resource_uri(resolved.vals)], num_levels),
                         num_levels, caching, uuid)

\* perform_grade_comprehensive_assessment(resource_id, num_levels, cache_result)
perform_grade_comprehensive_assessment(cache, index, requested, num_levels, caching, uuid) ==
    grade_of_resource(cache, index,
                      resolve_resource(cache, requested,
                                       find_latest_topsis_resource(index),
                                       "topsis_result"),
                      num_levels, caching, uuid)

(***************************************************************************)
(* The inputs of the tools.                                                *)
(***************************************************************************)
\* Uploaded tables: float columns over WorkflowCells, and a text column.
WorkflowCells == {One, Whole(4)}
WorkflowColumnSets == {{"cost"}, {"score", "cost"}, {"cost", "misc"}}
WorkflowColumns ==
    {[r \in 1..MaxRows |-> Number(cells[r])] :
        cells \in {c \in [1..MaxRows -> WorkflowCells] : c[1] # c[MaxRows]}}
WorkflowTables ==
    UNION {{t \in [names -> WorkflowColumns \cup {[r \in 1..MaxRows |-> Text]}] :
                \A col \in names : col # "misc" => is_numeric(t[col])} :
            names \in WorkflowColumnSets}

\* Configurations: none or one field, two fields in either order, two fields
\* with lists of different lengths, a list that is not decreasing, and a
\* field whose polarity no keyword tells.
WorkflowConfigs ==
    {<<>>,
     <<<<"cost", <<Whole(2), One>>>>>>,
     <<<<"cost", <<One, Whole(2)>>>>>>,
     <<<<"score", <<Whole(2), One>>>>, <<"cost", <<Whole(2), One>>>>>>,
     <<<<"cost", <<Whole(2), One>>>>, <<"score", <<Whole(2), One>>>>>>,
     <<<<"score", <<Whole(2), One>>>>, <<"cost", <<Whole(4), Whole(2), One>>>>>>,
     <<<<"cost", <<Whole(2), One>>>>, <<"misc", <<Whole(2), One>>>>>>}

\* The polarity configurations handed to apply_polarity_adjustment_tool.
WorkflowPolarityConfigs == {[cost |-> "max"], [score |-> "max"]}

MaxCalls == 3           \* tool calls made after the upload and its adjustment

\* An id that was never stored.
MissingId == generate_resource_id(9, "raw_data", NoId, "")

\* The weights handed to an evaluation: None, or all the weight on the first
\* of two factors.
ToolWeights == {NoWeights, [given |-> TRUE, vals |-> <<One, Zero>>]}

\* The states in which a tool may be called after the upload.
WorkflowStates ==
    {"uploaded", "tool_done", "tool_failed", "membership_done", "membership_failed",
     "latest_found", "topsis_done", "topsis_failed", "vikor_done", "vikor_failed",
     "graded", "grading_failed", "cleared", "deleted", "not_deleted"}

uploadVars == <<df, polarity_results, adjusted_df, upload_result, original_resource_uri,
                polarity_config, tool_result>>

WorkflowInit ==
    /\ pc = "start"
    /\ df \in WorkflowTables
    /\ polarity_results = <<>>
    /\ adjusted_df = NotCalled
    /\ DATA_CACHE = <<>>
    /\ RESOURCE_INDEX = <<>>
    /\ upload_result = NotCalled
    /\ original_resource_uri = NoUri
    /\ polarity_config = <<>>
    /\ tool_result = NotCalled
    /\ WorkflowIdle
    /\ GradeIdle
    /\ normalized_matrices = <<>>
    /\ weights = NoWeights
    /\ v = default_v
    /\ v_given = FALSE
    /\ comprehensive_membership = NotCalled
    /\ comprehensive_scores = NotCalled
    /\ membership_scores = NotCalled
    /\ vikor_scores = NotCalled
    /\ q_values = NotCalled
    /\ x = ScalarOf(Zero)
    /\ level_params = <<>>
    /\ level_index = 0
    /\ total_levels = 0
    /\ membership = NotCalled

\* The tool apply_polarity_adjustment_tool on the uploaded resource.
WorkflowPolarityAdjustment ==
    PolarityAdjustmentToolOn({upload_result.vals.original_resource_uri},
                             WorkflowPolarityConfigs)

\* The ids a caller knows: those of the index, and one that is in no store.
KnownIds == DOMAIN RESOURCE_INDEX \cup {MissingId}

\* The tool calculate_membership_with_config, on a raw resource.
CalculateMembership ==
    /\ pc \in WorkflowStates
    /\ calls < MaxCalls
    /\ \E resource_id \in {id \in DOMAIN RESOURCE_INDEX : id.type_code = "raw" /\ id.step = ""},
          config \in WorkflowConfigs :
        LET call == calculate_membership_with_config(DATA_CACHE, RESOURCE_INDEX,
                                                     resource_id, config, uuid_counter + 1)
        IN  /\ membership_config' = config
            /\ membership_result' = call.result
            /\ DATA_CACHE' = call.cache
            /\ RESOURCE_INDEX' = call.index
            /\ uuid_counter' = IF call.result.status = "ok"
                               THEN uuid_counter + 1 ELSE uuid_counter
            /\ pc' = IF call.result.status = "ok"
                     THEN "membership_done" ELSE "membership_failed"
    /\ calls' = calls + 1
    /\ UNCHANGED <<latest_resource, evaluation_resource_id, cache_result, evaluation_result>>
    /\ UNCHANGED <<uploadVars, membershipVars, aggregationVars, gradeVars>>

\* A call of find_latest_membership_resource.
FindLatestMembershipResource ==
    /\ pc \in WorkflowStates
    /\ calls < MaxCalls
    /\ latest_resource' = find_latest_membership_resource(DATA_CACHE)
    /\ pc' = "latest_found"
    /\ calls' = calls + 1
    /\ UNCHANGED <<membership_config, membership_result, evaluation_resource_id,
                   cache_result, evaluation_result, uuid_counter>>
    /\ UNCHANGED <<tableVars, membershipVars, aggregationVars, gradeVars>>

\* The resource_id arguments of an evaluation: None, or the result of the
\* last membership calculation or evaluation.
RequestedResources ==
    {None}
    \cup {Ok(r.vals.result_resource_id) :
            r \in {c \in {membership_result, evaluation_result} : c.status = "ok"}}

\* The tool perform_topsis_comprehensive_evaluation, on the calls whose
\* distances are rational.
TopsisTool ==
    /\ pc \in WorkflowStates
    /\ calls < MaxCalls
    /\ \E requested \in RequestedResources, w \in ToolWeights, caching \in BOOLEAN :
        LET call == perform_topsis_comprehensive_evaluation(
                        DATA_CACHE, RESOURCE_INDEX, requested, w, caching, uuid_counter + 1)
            matrices == call.normalized_matrices
        IN  /\ call.result.status \in {"ok", "UnboundLocalError"} =>
                    exact_distances(matrices, resolve_weights(w, Len(matrices[1])))
            /\ evaluation_resource_id' = requested
            /\ weights' = w
            /\ cache_result' = caching
            /\ normalized_matrices' = matrices
            /\ evaluation_result' = call.result
            /\ DATA_CACHE' = call.cache
            /\ RESOURCE_INDEX' = call.index
            /\ uuid_counter' = IF call.result.status = "ok"
                               THEN uuid_counter + 1 ELSE uuid_counter
            /\ pc' = IF call.result.status = "ok" THEN "topsis_done" ELSE "topsis_failed"
    /\ calls' = calls + 1
    /\ UNCHANGED <<membership_config, membership_result, latest_resource>>
    /\ UNCHANGED <<v, v_given, comprehensive_membership, comprehensive_scores,
                   membership_scores, vikor_scores, q_values>>
    /\ UNCHANGED <<uploadVars, membershipVars, gradeVars>>

\* The tool perform_vikor_comprehensive_evaluation, with the default v.
VikorTool ==
    /\ pc \in WorkflowStates
    /\ calls < MaxCalls
    /\ \E requested \in RequestedResources \ {None}, w \in ToolWeights, caching \in BOOLEAN :
        LET call == perform_vikor_comprehensive_evaluation(
                        DATA_CACHE, RESOURCE_INDEX, requested, w, v, caching,
                        uuid_counter + 1)
        IN  /\ evaluation_resource_id' = requested
            /\ weights' = w
            /\ cache_result' = caching
            /\ normalized_matrices' = call.normalized_matrices
            /\ evaluation_result' = call.result
            /\ DATA_CACHE' = call.cache
            /\ RESOURCE_INDEX' = call.index
            /\ uuid_counter' = IF call.result.status = "ok"
                               THEN uuid_counter + 1 ELSE uuid_counter
            /\ pc' = IF call.result.status = "ok" THEN "vikor_done" ELSE "vikor_failed"
    /\ calls' = calls + 1
    /\ UNCHANGED <<membership_config, membership_result, latest_resource>>
    /\ UNCHANGED <<v, v_given, comprehensive_membership, comprehensive_scores,
                   membership_scores, vikor_scores, q_values>>
    /\ UNCHANGED <<uploadVars, membershipVars, gradeVars>>

\* The num_levels arguments of the grade assessment.
GradeLevelArguments == {2, 3}

\* The tool perform_grade_comprehensive_assessment.
GradeTool ==
    /\ pc \in WorkflowStates
    /\ calls < MaxCalls
    /\ \E requested \in RequestedResources, num_levels \in GradeLevelArguments,
          caching \in BOOLEAN :
        LET call == perform_grade_comprehensive_assessment(
                        DATA_CACHE, RESOURCE_INDEX, requested, num_levels, caching,
                        uuid_counter + 1)
        IN  /\ evaluation_resource_id' = requested
            /\ grade_levels' = num_levels
            /\ cache_result' = caching
            /\ evaluation_result' = call.result
            /\ DATA_CACHE' = call.cache
            /\ RESOURCE_INDEX' = call.index
            /\ uuid_counter' = IF call.result.status = "ok"
                               THEN uuid_counter + 1 ELSE uuid_counter
            /\ pc' = IF call.result.status = "ok" THEN "graded" ELSE "grading_failed"
    /\ calls' = calls + 1
    /\ UNCHANGED <<membership_config, membership_result, latest_resource>>
    /\ UNCHANGED <<level_characteristic_values, binary_semantic_results, assessment_result>>
    /\ UNCHANGED <<uploadVars, membershipVars, aggregationVars>>

\* The tool clear_data_cache.
ClearDataCache ==
    /\ pc \in WorkflowStates
    /\ calls < MaxCalls
    /\ DATA_CACHE' = clear_data_cache(DATA_CACHE, RESOURCE_INDEX).cache
    /\ RESOURCE_INDEX' = clear_data_cache(DATA_CACHE, RESOURCE_INDEX).index
    /\ pc' = "cleared"
    /\ calls' = calls + 1
    /\ UNCHANGED <<membership_config, membership_result, latest_resource,
                   evaluation_resource_id, cache_result, evaluation_result, uuid_counter>>
    /\ UNCHANGED <<uploadVars, membershipVars, aggregationVars, gradeVars>>

\* The tool delete_persistent_resource.
DeletePersistentResource ==
    /\ pc \in WorkflowStates
    /\ calls < MaxCalls
    /\ \E resource_id \in {id \in KnownIds : id.type_code \in {"raw", "mc"}} :
        LET call == delete_persistent_resource(DATA_CACHE, RESOURCE_INDEX, resource_id)
        IN  /\ DATA_CACHE' = call.cache
            /\ RESOURCE_INDEX' = call.index
            /\ pc' = IF call.success THEN "deleted" ELSE "not_deleted"
    /\ calls' = calls + 1
    /\ UNCHANGED <<membership_config, membership_result, latest_resource,
                   evaluation_resource_id, cache_result, evaluation_result, uuid_counter>>
    /\ UNCHANGED <<uploadVars, membershipVars, aggregationVars, gradeVars>>

\* The tools that fill and empty the two stores.
WorkflowNext ==
    \/ UploadCsv
    \/ WorkflowPolarityAdjustment
    \/ CalculateMembership
    \/ FindLatestMembershipResource
    \/ ClearDataCache
    \/ DeletePersistentResource

WorkflowSpec == WorkflowInit /\ [][WorkflowNext]_vars

\* The tools of an evaluation: upload, membership calculation, TOPSIS, VIKOR
\* and the grade assessment.
EvaluationNext ==
    \/ UploadCsv
    \/ CalculateMembership
    \/ TopsisTool
    \/ VikorTool
    \/ GradeTool

EvaluationSpec == WorkflowInit /\ [][EvaluationNext]_vars

(***************************************************************************)
(* The two stores.                                                         *)
(***************************************************************************)
\* C29: after any sequence of tool calls, every resource id registered in
\* RESOURCE_INDEX has its uri in DATA_CACHE, so that
\* load_resource_from_persistent_storage succeeds for every indexed id.
C29_StoreConsistency ==
    \A resource_id \in DOMAIN RESOURCE_INDEX :
        /\ RESOURCE_INDEX[resource_id] \in DOMAIN DATA_CACHE
        /\ load_resource_from_persistent_storage(DATA_CACHE, RESOURCE_INDEX,
                                                 resource_id).status = "ok"

\* The ids of the membership resources the cache holds a membership matrix
\* for.
HeldMembershipResources ==
    {uri.id : uri \in {u \in DOMAIN DATA_CACHE :
                          u.id.type_code = "mc" /\ is_membership_matrix(DATA_CACHE[u])}}

\* C27: find_latest_membership_resource returns the id of the most recently
\* created membership resource still held in DATA_CACHE, and None when the
\* cache holds no membership resource.
C27_LatestMembershipResource ==
    pc = "latest_found" =>
        IF HeldMembershipResources = {}
        THEN latest_resource.status = "None"
        ELSE /\ latest_resource.status = "ok"
             /\ latest_resource.vals \in HeldMembershipResources
             /\ \A resource_id \in HeldMembershipResources :
                    resource_id.unique_id <= latest_resource.vals.unique_id

(***************************************************************************)
(* The membership calculation.                                             *)
(***************************************************************************)
\* The polarity-adjusted resources of the cache that were derived from the
\* raw resource resource_id.
AdjustedResourcesOf(resource_id) ==
    {uri.id : uri \in {u \in DOMAIN DATA_CACHE :
                          /\ u.id.type_code = "raw"
                          /\ u.id.step = "polarityad"
                          /\ u.id.parent_hash = resource_id.unique_id}}

\* C26: whenever DATA_CACHE holds a polarity-adjusted table derived from the
\* raw resource R, calculate_membership_with_config(R, config) reads the
\* adjusted table instead of R's raw table.
C26_ReadsAdjustedTable ==
    (pc = "membership_done"
        /\ AdjustedResourcesOf(membership_result.vals.original_resource_uri.id) # {})
    => membership_result.vals.used_resource_id
            \in AdjustedResourcesOf(membership_result.vals.original_resource_uri.id)

\* The factors of a membership resource, and the levels one of them has.
FactorsOf(table) == {Rows(table)[r].factor.val : r \in 1..NumRows(table)}
LevelsOf(table, factor) ==
    {Rows(table)[r].level.val :
        r \in {k \in 1..NumRows(table) : Rows(table)[k].factor.val = factor}}

\* C23: in every membership resource produced by
\* calculate_membership_with_config all factors have the same number of
\* levels; a configuration whose threshold lists differ in length produces no
\* membership resource.
C23_SameNumberOfLevels ==
    \A uri \in {u \in DOMAIN DATA_CACHE : u.id.type_code = "mc"} :
        \A f, g \in FactorsOf(DATA_CACHE[uri]) :
            Cardinality(LevelsOf(DATA_CACHE[uri], f))
                = Cardinality(LevelsOf(DATA_CACHE[uri], g))

\* The factors a membership calculation was configured with.
ConfiguredFactors == {membership_config[i][1] : i \in 1..Len(membership_config)}

\* The configured factors have one determined polarity.
UniformPolarity(factors) ==
    \A f, g \in factors : name_polarity(f) # "unknown" /\ name_polarity(f) = name_polarity(g)

\* C24: calculate_membership_with_config produces no result from an
\* unadjusted table whose configured factors have mixed or undetermined
\* polarity unless it reports a mixed-polarity warning.
C24_NoSilentMixedPolarity ==
    (pc = "membership_done" /\ membership_result.vals.used_resource_id.step = "")
    => \/ UniformPolarity(ConfiguredFactors)
       \/ "mixed_polarity" \in membership_result.vals.validation_warnings

(***************************************************************************)
(* The evaluation tools.                                                   *)
(***************************************************************************)
\* The states that follow a call of the TOPSIS, VIKOR or grade tool.
AfterEvaluation ==
    pc \in {"topsis_done", "topsis_failed", "vikor_done", "vikor_failed",
            "graded", "grading_failed"}

\* C25: called with cache_result=False, the TOPSIS, VIKOR and grade tools
\* return their computed result; the call does not end in the exception of a
\* name that was never bound.
C25_UncachedCallReturns ==
    (AfterEvaluation /\ ~cache_result) => evaluation_result.status # "UnboundLocalError"

\* The memberships the last membership calculation gave object o for the i-th
\* factor of its configuration, in the order of the levels.
ConfiguredRow(o, i) ==
    LET records == SelectSeq(membership_result.vals.membership_matrix,
                        LAMBDA rec : /\ rec.object.val = o
                                     /\ rec.factor.val = membership_config[i][1])
    IN  [l \in 1..Len(records) |-> records[l].membership.val]

\* The TOPSIS or VIKOR tool has rebuilt the matrices from the resource of the
\* last membership calculation.
RebuiltFromMembershipResult ==
    /\ pc \in {"topsis_done", "topsis_failed", "vikor_done", "vikor_failed"}
    /\ membership_result.status = "ok"
    /\ evaluation_resource_id.status = "ok"
    /\ evaluation_resource_id.vals = membership_result.vals.result_resource_id
    /\ normalized_matrices # <<>>

\* C22: row i of every object's matrix that the TOPSIS and VIKOR tools rebuild
\* from a cached membership resource is the i-th factor of the configuration,
\* so that weights[i] is applied to the i-th configured factor.
C22_RowsFollowConfiguration ==
    RebuiltFromMembershipResult =>
        \A o \in 1..Len(normalized_matrices) :
            \A i \in 1..Len(normalized_matrices[o]) :
                normalized_matrices[o][i] = ConfiguredRow(o, i)

=============================================================================
